---- MODULE Spec2Model ----
(***************************************************************************)
(* The integration agent of the journal backend (prompt, retrying remote   *)
(* call, response parser and validator, health check, self test) and the   *)
(* journal controller that persists entries with their analysis.           *)
(***************************************************************************)
EXTENDS Integers, Sequences, FiniteSets, TLC

(***************************************************************************)
(* Bounds of the model.                                                    *)
(***************************************************************************)
\* Largest value of LLM_MAX_RETRIES the environment configures.
MaxConfigRetries == 2
\* Longest wrongdoings_and_solutions list the remote service answers with.
MaxItems == 1
\* The days the server clock runs through.
MaxDay == 5
\* The mistake records ever created.
MaxMistakes == 1
\* The avoidances recorded for one mistake record.
MaxRecordings == 3
\* The requests that are handled concurrently.
MaxRequests == 2

(***************************************************************************)
(* Program constants.                                                      *)
(***************************************************************************)
DefaultMaxRetries == 2
BaseDelayMs == 1000
MaxSummaryPoints == 5
MinScore == 0
MaxScore == 10
ReasoningMaxLength == 500
WrongdoingMaxLength == 200
SolutionMaxLength == 300

(***************************************************************************)
(* JavaScript values.  A string is either a sequence of characters (where  *)
(* the code looks at the characters) or a content label with a length      *)
(* (where the code looks at its type, its emptiness and its length only).  *)
(***************************************************************************)
Undefined == [t |-> "undefined"]
Null == [t |-> "null"]
NaN == [t |-> "NaN"]
Num(n) == [t |-> "number", n |-> n]
Bool(b) == [t |-> "boolean", b |-> b]
Text(chars) == [t |-> "string", chars |-> chars]
Str(v, len) == [t |-> "string", v |-> v, len |-> len]
Arr(elems) == [t |-> "array", elems |-> elems]

StrLen(s) ==
  CASE "chars" \in DOMAIN s -> Len(s.chars)
    [] "tokens" \in DOMAIN s -> Len(s.tokens)
    [] "len" \in DOMAIN s -> s.len
    [] OTHER -> 1

\* ToBoolean: what `!v`, `v || d` and `if (v)` look at.
Truthy(v) ==
  CASE v.t = "undefined" -> FALSE
    [] v.t = "null" -> FALSE
    [] v.t = "NaN" -> FALSE
    [] v.t = "number" -> v.n # 0
    [] v.t = "boolean" -> v.b
    [] v.t = "string" -> StrLen(v) > 0
    [] OTHER -> TRUE

\* typeof v
TypeOf(v) ==
  CASE v.t = "undefined" -> "undefined"
    [] v.t \in {"number", "NaN"} -> "number"
    [] v.t = "boolean" -> "boolean"
    [] v.t = "string" -> "string"
    [] OTHER -> "object"

\* v.field for a value that is neither null nor undefined.
Get(v, field) ==
  IF v.t = "object" /\ field \in DOMAIN v THEN v[field] ELSE Undefined

\* v?.field
Optional(v, field) == IF v.t \in {"null", "undefined"} THEN Undefined ELSE Get(v, field)

\* a || b
OrElse(a, b) == IF Truthy(a) THEN a ELSE b

\* String.prototype.trim on a sequence of characters.
RECURSIVE TrimLeft(_)
TrimLeft(s) ==
  IF Len(s) > 0 /\ Head(s) = " " THEN TrimLeft(Tail(s)) ELSE s

RECURSIVE TrimRight(_)
TrimRight(s) ==
  IF Len(s) > 0 /\ s[Len(s)] = " " THEN TrimRight(SubSeq(s, 1, Len(s) - 1)) ELSE s

Trim(s) == TrimRight(TrimLeft(s))

\* Array.prototype.join(', ') on a sequence of strings.
RECURSIVE Join(_)
Join(strs) ==
  IF Len(strs) = 0 THEN ""
  ELSE IF Len(strs) = 1 THEN strs[1]
  ELSE strs[1] \o ", " \o Join(Tail(strs))

\* An Error object: its class, its message and, for a rejection that
\* carries the remote service's answer, error.response.status (0 if none).
Err(class, message) == [class |-> class, message |-> message, status |-> 0]
HttpErr(status) ==
  [class |-> "AxiosError",
   message |-> "Request failed with status code " \o ToString(status),
   status |-> status]

Return(v) == [k |-> "return", value |-> v]
Throw(e) == [k |-> "throw", error |-> e]
Pending == [k |-> "none"]

(***************************************************************************)
(* The raw text of the remote service: a sequence of tokens.  A json token *)
(* is the serialisation of an object, so it begins with "{" and ends with  *)
(* "}"; lbrace and rbrace are single braces; noise has no brace.           *)
(***************************************************************************)
Ws == [k |-> "ws"]
Noise == [k |-> "noise"]
LBrace == [k |-> "lbrace"]
RBrace == [k |-> "rbrace"]
LBracket == [k |-> "lbracket"]
RBracket == [k |-> "rbracket"]
NullLit == [k |-> "null"]
Json(o) == [k |-> "json", o |-> o]
Raw(tokens) == [t |-> "string", tokens |-> tokens]

HasOpen(tok) == tok.k \in {"json", "lbrace"}
HasClose(tok) == tok.k \in {"json", "rbrace"}

\* String.prototype.trim on a token sequence.
RECURSIVE TrimTokens(_)
TrimTokens(s) ==
  IF Len(s) > 0 /\ Head(s) = Ws THEN TrimTokens(Tail(s))
  ELSE IF Len(s) > 0 /\ s[Len(s)] = Ws THEN TrimTokens(SubSeq(s, 1, Len(s) - 1))
  ELSE s

\* jsonText.match(/\{[\s\S]*\}/): the text from the first "{" to the last
\* "}" after it, or no match (the empty tuple stands for null).
BraceMatch(s) ==
  LET opens == {i \in 1..Len(s) : HasOpen(s[i])}
      closes == {i \in 1..Len(s) : HasClose(s[i])}
  IN
  IF opens = {} \/ closes = {} THEN [found |-> FALSE, text |-> <<>>]
  ELSE LET i == CHOOSE a \in opens : \A b \in opens : a <= b
           j == CHOOSE a \in closes : \A b \in closes : a >= b
       IN IF j > i \/ (j = i /\ s[i].k = "json")
          THEN [found |-> TRUE, text |-> SubSeq(s, i, j)]
          ELSE [found |-> FALSE, text |-> <<>>]

\* JSON.parse: whitespace between tokens is insignificant; a text is JSON
\* when it is one object, the literal null, the empty object "{}", or an
\* array of at most one such value.
EmptyObject == [t |-> "object"]
JsonParse(s) ==
  LET T == SelectSeq(s, LAMBDA tok : tok # Ws)
      Scalar(tok) == IF tok.k = "json" THEN tok.o ELSE Null
  IN CASE Len(T) = 1 /\ T[1].k \in {"json", "null"} -> Return(Scalar(T[1]))
       [] Len(T) = 2 /\ T[1] = LBrace /\ T[2] = RBrace -> Return(EmptyObject)
       [] Len(T) = 2 /\ T[1] = LBracket /\ T[2] = RBracket -> Return(Arr(<<>>))
       [] Len(T) = 3 /\ T[1] = LBracket /\ T[3] = RBracket
            /\ T[2].k \in {"json", "null"} -> Return(Arr(<<Scalar(T[2])>>))
       [] OTHER -> Throw(Err("SyntaxError", "Unexpected token in JSON"))

(***************************************************************************)
(* The response validator.                                                 *)
(***************************************************************************)
Sentiments == {"Positive", "Negative", "Neutral"}

\* SummaryErrors without the upper limit on the number of points.
SummaryErrorsNoUpperLimit(response) ==
  LET summary == Get(response, "summary")
  IN IF summary.t # "array" THEN <<"summary must be an array">>
     ELSE IF Len(summary.elems) = 0 THEN <<"summary cannot be empty">>
     ELSE <<>>

SummaryErrors(response) ==
  LET summary == Get(response, "summary")
  IN IF summary.t # "array" THEN <<"summary must be an array">>
     ELSE IF Len(summary.elems) = 0 THEN <<"summary cannot be empty">>
     ELSE IF Len(summary.elems) > MaxSummaryPoints
          THEN <<"summary cannot have more than 5 points">>
     ELSE <<>>

SentimentErrors(response) ==
  LET sentiment == Get(response, "sentiment")
  IN IF sentiment.t = "string" /\ "v" \in DOMAIN sentiment /\ sentiment.v \in Sentiments
     THEN <<>>
     ELSE <<"sentiment must be exactly \"Positive\", \"Negative\", or \"Neutral\"">>

ReasoningErrors(response) ==
  LET reasoning == Get(response, "sentiment_reasoning")
  IN IF ~Truthy(reasoning) \/ TypeOf(reasoning) # "string"
     THEN <<"sentiment_reasoning must be a non-empty string">>
     ELSE <<>>

\* The forEach callback: item.wrongdoing of null or undefined raises.
ItemRaises(item) == item.t \in {"null", "undefined"}
ItemError(item, index) ==
  IF ~Truthy(Get(item, "wrongdoing")) \/ ~Truthy(Get(item, "solution"))
  THEN <<"wrongdoings_and_solutions[" \o ToString(index)
           \o "] must have both wrongdoing and solution fields">>
  ELSE <<>>

RECURSIVE ItemErrors(_, _)
ItemErrors(items, index) ==
  IF index >= Len(items) THEN <<>>
  ELSE ItemError(items[index + 1], index) \o ItemErrors(items, index + 1)

WrongdoingsRaise(response) ==
  LET list == Get(response, "wrongdoings_and_solutions")
  IN list.t = "array" /\ \E i \in 1..Len(list.elems) : ItemRaises(list.elems[i])

\* The errors pushed up to the first item that raises.
WrongdoingsErrors(response) ==
  LET list == Get(response, "wrongdoings_and_solutions")
  IN IF list.t # "array" THEN <<"wrongdoings_and_solutions must be an array">>
     ELSE IF WrongdoingsRaise(response) THEN <<>>
     ELSE ItemErrors(list.elems, 0)

\* ScoreErrors with the upper limit excluded.
ScoreErrorsExclusiveUpper(response) ==
  LET score == Get(response, "overall_score")
  IN IF TypeOf(score) # "number"
        \/ (score.t = "number" /\ (score.n < MinScore \/ score.n >= MaxScore))
     THEN <<"overall_score must be a number between 0 and 10">>
     ELSE <<>>

ScoreErrors(response) ==
  LET score == Get(response, "overall_score")
  IN IF TypeOf(score) # "number"
        \/ (score.t = "number" /\ (score.n < MinScore \/ score.n > MaxScore))
     THEN <<"overall_score must be a number between 0 and 10">>
     ELSE <<>>

validateAnalysisResponse(response) ==
  IF response.t \in {"null", "undefined"}
  THEN Throw(Err("TypeError", "Cannot read properties of " \o response.t))
  ELSE IF WrongdoingsRaise(response)
  THEN Throw(Err("TypeError", "Cannot read properties of null"))
  ELSE LET errors == SummaryErrors(response) \o SentimentErrors(response)
                       \o ReasoningErrors(response) \o WrongdoingsErrors(response)
                       \o ScoreErrors(response)
       IN Return([isValid |-> Len(errors) = 0, errors |-> errors])

(***************************************************************************)
(* The response parser.                                                    *)
(***************************************************************************)
ExtractJson(jsonText) ==
  LET jsonMatch == BraceMatch(jsonText)
  IN IF jsonMatch.found THEN jsonMatch.text ELSE jsonText

parseAndValidateLLMResponse(llmResponse) ==
  IF "tokens" \notin DOMAIN llmResponse.response
  THEN Throw(Err("TypeError", "llmResponse.response.trim is not a function"))
  ELSE
    LET parsed == JsonParse(ExtractJson(TrimTokens(llmResponse.response.tokens)))
    IN IF parsed.k = "throw"
       THEN Throw(Err("Error", "LLM returned invalid JSON format"))
       ELSE LET validation == validateAnalysisResponse(parsed.value)
            IN IF validation.k = "throw" THEN validation
               ELSE IF ~validation.value.isValid
               THEN Throw(Err("Error", "Invalid LLM response structure: "
                                          \o Join(validation.value.errors)))
               ELSE Return(parsed.value)

(***************************************************************************)
(* The constructor's configuration and the prompt.                         *)
(***************************************************************************)
\* parseInt of an environment variable: unset gives NaN, a numeral its value.
ParseInt(v) == IF v.t = "string" /\ "num" \in DOMAIN v THEN Num(v.num) ELSE NaN
Numeral(n) == [t |-> "string", num |-> n]

ConfiguredMaxRetries(envValue) == OrElse(ParseInt(envValue), Num(DefaultMaxRetries)).n

PromptHead == "Please analyze the following journal entry"
PromptTail == "JSON Response:"
buildAnalysisPrompt(journalChars) == Text(<<PromptHead>> \o journalChars \o <<PromptTail>>)

(***************************************************************************)
(* processJournalEntry, around the retrying call.                          *)
(***************************************************************************)
\* InvalidInput without the check of the trimmed text.
InvalidInputNoTrim(journalText) ==
  \/ ~Truthy(journalText)
  \/ TypeOf(journalText) # "string"

InvalidInput(journalText) ==
  \/ ~Truthy(journalText)
  \/ TypeOf(journalText) # "string"
  \/ ~Truthy(Text(Trim(journalText.chars)))

InvalidInputError == Err("Error", "Journal text must be a non-empty string")

Wrapped(error) == Err("Error", "Failed to process journal entry: " \o error.message)

Envelope(journalText, analysisResult, llmResponse) ==
  [success |-> TRUE,
   originalText |-> Text(Trim(journalText.chars)),
   analysis |-> analysisResult,
   processedAt |-> "now",
   metadata |-> [llmProvider |-> OrElse(llmResponse.provider, Str("unknown", 7)),
                 model |-> OrElse(llmResponse.model, Str("unknown", 7)),
                 tokensUsed |-> OrElse(Optional(llmResponse.metadata, "tokens_used"), Null),
                 responseTime |-> OrElse(Optional(llmResponse.metadata, "response_time"), Null)]]

\* The rest of processJournalEntry once callLLMServiceWithRetry has settled.
processJournalEntryAfterCall(journalText, called) ==
  IF called.k = "throw" THEN Throw(Wrapped(called.error))
  ELSE LET analysisResult == parseAndValidateLLMResponse(called.value)
       IN IF analysisResult.k = "throw" THEN Throw(Wrapped(analysisResult.error))
          ELSE Return(Envelope(journalText, analysisResult.value, called.value))

(***************************************************************************)
(* callLLMServiceWithRetry: the decisions of one loop iteration.           *)
(***************************************************************************)
\* LoopContinues with the bound off by one.
LoopContinuesOffByOne(n, retries) == n <= retries

\* The loop condition: attempt <= this.maxRetries + 1.
LoopContinues(n, retries) == n <= retries + 1

\* response.data && response.data.response
HasRawText(data) == Truthy(data) /\ Truthy(Get(data, "response"))

LlmResponse(data) ==
  [response |-> Get(data, "response"),
   provider |-> Get(data, "provider"),
   model |-> Get(data, "model"),
   metadata |-> Get(data, "metadata")]

\* AttemptFailed that also counts an answer the parser rejects.
AttemptFailedOrUnparseable(answer) ==
  \/ ~(answer.k = "resolve" /\ HasRawText(answer.data))
  \/ parseAndValidateLLMResponse(LlmResponse(answer.data)).k = "throw"

\* The attempt ends in the catch block: the request was rejected, or the
\* response carries no raw text.
AttemptFailed(answer) == ~(answer.k = "resolve" /\ HasRawText(answer.data))

InvalidFormatError == Err("Error", "Invalid response format from LLM service")

\* What the catch block binds: the rejection, or the error thrown for a
\* resolved response without raw text.
AttemptError(answer) ==
  IF answer.k = "resolve" THEN InvalidFormatError ELSE answer.error

\* NoRetry that forgets status 401.
NoRetryOnly400(error) == error.status = 400

\* NoRetry for every error status of the remote service.
NoRetryAnyStatus(error) == error.status >= 400

\* error.response?.status === 400 || error.response?.status === 401
NoRetry(error) == error.status = 400 \/ error.status = 401

\* attempt < this.maxRetries + 1: a delay and another attempt follow.
RetryFollows(n, retries) == n < retries + 1

\* BackoffMs with a constant delay.
BackoffConstant(n) == BaseDelayMs

\* this.delay(1000 * attempt)
BackoffMs(n) == BaseDelayMs * n

Unavailable(retries, error) ==
  Err("Error", "LLM service unavailable after " \o ToString(retries + 1)
                 \o " attempts: " \o error.message)

\* lastError.message when no attempt was made.
NoAttemptError == Err("TypeError", "Cannot read properties of undefined (reading 'message')")

(***************************************************************************)
(* healthCheck and testIntegration.                                        *)
(***************************************************************************)
LlmServiceUrl == "http://localhost:3001"

\* healthCheck without its catch block.
healthCheckNoCatch(probe) ==
  IF probe.k = "resolve"
  THEN Return([status |-> "healthy",
               llmService |-> [url |-> LlmServiceUrl,
                               status |-> IF probe.status = 200 THEN "connected" ELSE "error",
                               responseTime |-> "unknown"]])
  ELSE Throw(probe.error)

healthCheck(probe) ==
  IF probe.k = "resolve"
  THEN Return([status |-> "healthy",
               llmService |-> [url |-> LlmServiceUrl,
                               status |-> IF probe.status = 200 THEN "connected" ELSE "error",
                               responseTime |-> "unknown"]])
  ELSE Return([status |-> "unhealthy",
               llmService |-> [url |-> LlmServiceUrl,
                               status |-> "disconnected",
                               error |-> probe.error.message]])

SampleJournal == Text(<<"Today", " ", "was", " ", "a", " ", "challenging", " ", "day">>)

testIntegrationSettled(processed) ==
  IF processed.k = "return"
  THEN Return([success |-> TRUE, message |-> "Integration test passed",
               sampleResult |-> processed.value])
  ELSE Return([success |-> FALSE, message |-> "Integration test failed",
               error |-> processed.error.message])

(***************************************************************************)
(* The journal schema and createWithAnalysis.                              *)
(***************************************************************************)
\* The aiAnalysis the controller builds from the agent's envelope.
TransformAnalysis(envelope) ==
  [summary |-> Get(envelope.analysis, "summary"),
   sentiment |-> Get(envelope.analysis, "sentiment"),
   sentimentReasoning |-> Get(envelope.analysis, "sentiment_reasoning"),
   wrongdoingsAndSolutions |-> Get(envelope.analysis, "wrongdoings_and_solutions"),
   overallScore |-> Get(envelope.analysis, "overall_score"),
   processedAt |-> envelope.processedAt,
   llmMetadata |-> [provider |-> envelope.metadata.llmProvider,
                    model |-> envelope.metadata.model,
                    tokensUsed |-> envelope.metadata.tokensUsed,
                    responseTime |-> envelope.metadata.responseTime]]

Moods == {"very_happy", "happy", "neutral", "sad", "very_sad"}

NewJournal(userId, content, date, tags, mood, aiAnalysis) ==
  [userId |-> userId, content |-> content, date |-> date, tags |-> tags,
   mood |-> mood, type |-> "journal", aiAnalysis |-> aiAnalysis]

\* A String path with maxlength: the validator fails on a longer string.
TooLong(v, max) == v.t = "string" /\ StrLen(v) > max

PairInvalid(pair) ==
  \/ ~Truthy(Get(pair, "wrongdoing"))
  \/ ~Truthy(Get(pair, "solution"))
  \/ TooLong(Get(pair, "wrongdoing"), WrongdoingMaxLength)
  \/ TooLong(Get(pair, "solution"), SolutionMaxLength)

\* The validators of the aiAnalysis paths that run on save.
AnalysisInvalid(a) ==
  \/ a.sentiment.t = "string" /\ a.sentiment.v \notin Sentiments
  \/ TooLong(a.sentimentReasoning, ReasoningMaxLength)
  \/ a.wrongdoingsAndSolutions.t = "array"
       /\ \E i \in 1..Len(a.wrongdoingsAndSolutions.elems) :
            PairInvalid(a.wrongdoingsAndSolutions.elems[i])
  \/ a.overallScore.t = "number"
       /\ (a.overallScore.n < MinScore \/ a.overallScore.n > MaxScore)

\* journalEntry.save(): the document is stored unless a validator fails.
SaveFails(doc) ==
  \/ ~Truthy(doc.userId) \/ ~Truthy(doc.content) \/ ~Truthy(doc.date)
  \/ doc.mood \notin Moods
  \/ doc.aiAnalysis # Null /\ AnalysisInvalid(doc.aiAnalysis)

Created(entry, aiAnalysis, processingError) ==
  [status |-> 201,
   body |-> [success |-> TRUE, entry |-> entry,
             aiAnalysisStatus |-> [processed |-> aiAnalysis # Null,
                                   error |-> processingError]]]

Failed(status, error) == [status |-> status, body |-> [error |-> error]]

\* The request's input checks, in the handler's order: the answer that
\* ends the request early, or Null when the request goes on.
Rejected(request) ==
  IF ~Truthy(request.uid) THEN Failed(401, "Unauthorized")
  ELSE IF ~Truthy(request.content) \/ ~Truthy(request.date)
  THEN Failed(400, "Content and date are required")
  ELSE IF TypeOf(request.content) # "string" \/ ~Truthy(Text(Trim(request.content.chars)))
  THEN Failed(400, "Content must be a non-empty string")
  ELSE Null

\* analyzeWithAI = true when the body leaves it out.
AnalyzeWithAI(request) ==
  IF request.analyzeWithAI = Undefined THEN TRUE ELSE Truthy(request.analyzeWithAI)

(***************************************************************************)
(* The inputs: what the environment configures, what callers pass and what *)
(* the remote service answers.                                             *)
(***************************************************************************)
EnvValues == {Undefined} \cup {Numeral(n) : n \in -1..MaxConfigRetries}

JournalTexts ==
  {Undefined, Null, Num(0), Num(5), Text(<<>>), Text(<<" ">>), Text(<<" ", " ">>),
   Text(<<"a">>), Text(<<" ", "a", " ">>)}

Summary(n) == Arr([i \in 1..n |-> Str("point", 5)])
Item(w, s) == [t |-> "object", wrongdoing |-> w, solution |-> s]
Analysis(summary, sentiment, reasoning, wrongdoings, score) ==
  [t |-> "object", summary |-> summary, sentiment |-> sentiment,
   sentiment_reasoning |-> reasoning, wrongdoings_and_solutions |-> wrongdoings,
   overall_score |-> score]

SummaryValues == {Undefined} \cup {Summary(n) : n \in 0..(MaxSummaryPoints + 1)}
SentimentValues ==
  {Undefined, Str("positive", 8), Str("Positive", 8), Str("Negative", 8), Str("Neutral", 7)}
ReasoningValues ==
  {Undefined, Num(7), Str("", 0), Str("reasoning", ReasoningMaxLength),
   Str("reasoning", ReasoningMaxLength + 1)}
Items ==
  {Null, Num(5),
   Item(Str("wrongdoing", WrongdoingMaxLength), Str("solution", SolutionMaxLength)),
   Item(Undefined, Str("solution", SolutionMaxLength)),
   Item(Num(5), Str("solution", SolutionMaxLength)),
   Item(Str("wrongdoing", WrongdoingMaxLength), Str("", 0)),
   Item(Str("wrongdoing", WrongdoingMaxLength + 1), Str("solution", SolutionMaxLength)),
   Item(Str("wrongdoing", WrongdoingMaxLength), Str("solution", SolutionMaxLength + 1))}
ItemLists == UNION {[1..n -> Items] : n \in 0..MaxItems}
WrongdoingsValues == {Undefined} \cup {Arr(list) : list \in ItemLists}
ScoreValues == {Undefined, Str("7", 1), Num(-1), Num(0), Num(10), Num(11)}

\* Every combination of the field values.
AllAnalyses ==
  {Analysis(a, b, c, d, e) : a \in SummaryValues, b \in SentimentValues,
                             c \in ReasoningValues, d \in WrongdoingsValues,
                             e \in ScoreValues}

ValidAnalysis ==
  Analysis(Summary(1), Str("Positive", 8), Str("reasoning", ReasoningMaxLength),
           Arr(<<>>), Num(10))

\* A valid answer with each field replaced in turn.
OneOff(base) ==
  {[base EXCEPT !.summary = v] : v \in SummaryValues}
    \cup {[base EXCEPT !.sentiment = v] : v \in SentimentValues}
    \cup {[base EXCEPT !.sentiment_reasoning = v] : v \in ReasoningValues}
    \cup {[base EXCEPT !.wrongdoings_and_solutions = v] : v \in WrongdoingsValues}
    \cup {[base EXCEPT !.overall_score = v] : v \in ScoreValues}

NoisyTexts(o) ==
  {<<Noise, Ws, Json(o), Ws, Noise>>, <<Ws, Json(o), Ws>>, <<LBracket, Json(o), RBracket>>,
   <<Noise, LBrace, Noise, RBrace, Ws, Json(o)>>, <<Json(o), Ws, Noise, RBrace>>}
OtherTexts ==
  NoisyTexts(ValidAnalysis) \cup NoisyTexts([ValidAnalysis EXCEPT !.summary = Undefined])
    \cup {<<Noise>>, <<NullLit>>, <<LBrace, RBrace>>, <<LBrace, Noise, RBrace>>,
          <<RBrace, Noise, LBrace>>}

\* The raw texts of the retrying call, and those of the parser alone.
RawTexts == {Raw(<<Json(o)>>) : o \in OneOff(ValidAnalysis)} \cup {Raw(text) : text \in OtherTexts}
AllRawTexts == {Raw(<<Json(o)>>) : o \in AllAnalyses} \cup {Raw(text) : text \in OtherTexts}

Data(response, provider) ==
  [t |-> "object", response |-> response, provider |-> provider]
RemoteData ==
  {Undefined, [t |-> "object"], Data(Str("", 0), Undefined), Data(Num(5), Undefined),
   Data(Raw(<<Json(ValidAnalysis)>>), Str("openai", 6))}
    \cup {Data(raw, Undefined) : raw \in RawTexts}

ErrorStatuses == {400, 401, 403, 429, 500}
Rejections ==
  {Err("AxiosError", "timeout of 30000ms exceeded"), Err("AxiosError", "Network Error")}
    \cup {HttpErr(status) : status \in ErrorStatuses}
RemoteAnswers ==
  {[k |-> "resolve", data |-> d] : d \in RemoteData}
    \cup {[k |-> "reject", error |-> e] : e \in Rejections}

ProbeAnswers ==
  {[k |-> "resolve", status |-> st] : st \in {200, 204}}
    \cup {[k |-> "reject", error |-> e] :
            e \in {Err("AxiosError", "timeout of 5000ms exceeded"),
                   Err("AxiosError", "Network Error"), HttpErr(404), HttpErr(503)}}

Requests ==
  [uid : {Undefined, Str("userA", 5)},
   content : {Undefined, Num(5), Text(<<" ">>), Text(<<"a">>), Text(<<" ", "a">>)},
   date : {Undefined, Str("2024-01-15", 10)},
   analyzeWithAI : {Undefined, Bool(FALSE)}]

(***************************************************************************)
(* The token check that guards the journal, overthinking and mistake       *)
(* routes.                                                                 *)
(***************************************************************************)
Users == {"userA", "userB"}

\* The Authorization header: its value split at the spaces.
Header(parts) == [t |-> "string", parts |-> parts]
HeaderValues ==
  {Undefined, Header(<<"Bearer">>), Header(<<"Bearer", "tokenA">>),
   Header(<<"Bearer", "tokenB">>), Header(<<"Bearer", "expired">>),
   Header(<<"Basic", "tokenA">>)}

\* req.headers.authorization?.split(" ")[1]
BearerToken(authorization) ==
  IF authorization.t = "undefined" THEN Undefined
  ELSE IF Len(authorization.parts) < 2 THEN Undefined
  ELSE Str(authorization.parts[2], IF authorization.parts[2] = "" THEN 0 ELSE 1)

\* admin.auth().verifyIdToken(token) of the identity provider: the decoded
\* token of a token it issued, a rejection otherwise.
verifyIdToken(token) ==
  CASE token.v = "tokenA" -> Return([t |-> "object", uid |-> "userA"])
    [] token.v = "tokenB" -> Return([t |-> "object", uid |-> "userB"])
    [] OTHER -> Throw(Err("FirebaseAuthError", "Decoding Firebase ID token failed"))

Answer(status, body) == [status |-> status, body |-> body]

\* verifyToken that lets a request without a token through.
verifyTokenOptional(authorization) ==
  LET token == BearerToken(authorization)
  IN IF ~Truthy(token) THEN [next |-> TRUE, user |-> Undefined]
     ELSE LET decoded == verifyIdToken(token)
          IN IF decoded.k = "return" THEN [next |-> TRUE, user |-> decoded.value]
             ELSE [next |-> FALSE, res |-> Answer(401, "Invalid token")]

\* verifyToken: either next() is called with req.user set, or the request
\* is answered 401.
verifyToken(authorization) ==
  LET token == BearerToken(authorization)
  IN IF ~Truthy(token) THEN [next |-> FALSE, res |-> Answer(401, "Unauthorized")]
     ELSE LET decoded == verifyIdToken(token)
          IN IF decoded.k = "return" THEN [next |-> TRUE, user |-> decoded.value]
             ELSE [next |-> FALSE, res |-> Answer(401, "Invalid token")]

(***************************************************************************)
(* Mistake records and their streaks.  A date string "YYYY-MM-DD" is kept  *)
(* as the number of its day.                                               *)
(***************************************************************************)
Categories ==
  {"Work/Career", "Relationships", "Health", "Finance", "Persona Growth", "Communication",
   "Time Management", "Decision Making", "Other"}

DateStr(day) == [t |-> "string", day |-> day]
NoDate == Text(<<>>)
MsPerDay == 1000 * 60 * 60 * 24

\* new Date("YYYY-MM-DD"): midnight UTC of that day, in milliseconds.
DateOf(date) == date.day * MsPerDay

\* Math.floor((currentDate - lastDate) / (1000 * 60 * 60 * 24))
DaysDiff(lastAvoidedDate, today) == (DateOf(today) - DateOf(lastAvoidedDate)) \div MsPerDay

NewStreakInfo == [currentStreak |-> 0, bestStreak |-> 0, lastAvoidedDate |-> NoDate]

\* The best streak as the last statement of the streak update leaves it.
BestStreakOverwritten(currentStreak, bestStreak) == currentStreak

\* The best streak without its update.
BestStreakKept(currentStreak, bestStreak) == bestStreak

\* if (currentStreak > bestStreak) bestStreak = currentStreak
BestStreak(currentStreak, bestStreak) ==
  IF currentStreak > bestStreak THEN currentStreak ELSE bestStreak

\* The streak update of the update handler that counts on after a gap.
PutStreakNoReset(streakInfo, today) ==
  LET currentStreak == IF Truthy(streakInfo.lastAvoidedDate)
                       THEN IF DaysDiff(streakInfo.lastAvoidedDate, today) >= 1
                            THEN streakInfo.currentStreak + 1
                            ELSE 1
                       ELSE 1
  IN [currentStreak |-> currentStreak,
      bestStreak |-> BestStreak(currentStreak, streakInfo.bestStreak),
      lastAvoidedDate |-> today]

\* The streak update of the update handler (PUT with a truthy avoided).
PutStreak(streakInfo, today) ==
  LET currentStreak == IF Truthy(streakInfo.lastAvoidedDate)
                       THEN IF DaysDiff(streakInfo.lastAvoidedDate, today) = 1
                            THEN streakInfo.currentStreak + 1
                            ELSE 1
                       ELSE 1
  IN [currentStreak |-> currentStreak,
      bestStreak |-> BestStreak(currentStreak, streakInfo.bestStreak),
      lastAvoidedDate |-> today]

\* The streak update of the toggle handler that leaves a streak alone when
\* the avoidance is marked again on the same day.
ToggleStreakSameDayKept(streakInfo, today) ==
  LET currentStreak == IF Truthy(streakInfo.lastAvoidedDate)
                       THEN IF DaysDiff(streakInfo.lastAvoidedDate, today) = 1
                            THEN streakInfo.currentStreak + 1
                            ELSE IF DaysDiff(streakInfo.lastAvoidedDate, today) = 0
                            THEN streakInfo.currentStreak
                            ELSE 1
                       ELSE 1
  IN [currentStreak |-> currentStreak,
      bestStreak |-> BestStreak(currentStreak, streakInfo.bestStreak),
      lastAvoidedDate |-> today]

\* The streak update of the toggle handler that leaves lastAvoidedDate as
\* it was.
ToggleStreakStaleDate(streakInfo, today) ==
  LET currentStreak == IF Truthy(streakInfo.lastAvoidedDate)
                       THEN IF DaysDiff(streakInfo.lastAvoidedDate, today) = 1
                            THEN streakInfo.currentStreak + 1
                            ELSE 1
                       ELSE 1
  IN [currentStreak |-> currentStreak,
      bestStreak |-> BestStreak(currentStreak, streakInfo.bestStreak),
      lastAvoidedDate |-> streakInfo.lastAvoidedDate]

\* The streak update of the toggle handler (avoided turned on).
ToggleStreak(streakInfo, today) ==
  LET currentStreak == IF Truthy(streakInfo.lastAvoidedDate)
                       THEN IF DaysDiff(streakInfo.lastAvoidedDate, today) = 1
                            THEN streakInfo.currentStreak + 1
                            ELSE 1
                       ELSE 1
  IN [currentStreak |-> currentStreak,
      bestStreak |-> BestStreak(currentStreak, streakInfo.bestStreak),
      lastAvoidedDate |-> today]

\* The schema's Boolean type: what a value assigned to avoided is cast to;
\* a value that cannot be cast fails validation on save.
CastBoolean(v) ==
  CASE v.t = "boolean" -> Return(v)
    [] v.t \in {"null", "undefined"} -> Return(v)
    [] v.t = "string" /\ v.v \in {"true", "1", "yes"} -> Return(Bool(TRUE))
    [] v.t = "string" /\ v.v \in {"false", "0", "no"} -> Return(Bool(FALSE))
    [] v.t = "number" /\ v.n \in {0, 1} -> Return(Bool(v.n = 1))
    [] OTHER -> Throw(Err("CastError", "Cast to Boolean failed"))

\* new Mistake({...}) with the schema's defaults.
NewMistake(id, userId, mistake, solution, category, date, tags) ==
  [id |-> id, userId |-> userId, mistake |-> mistake, solution |-> solution,
   category |-> category, date |-> date, avoided |-> Bool(FALSE),
   streakInfo |-> NewStreakInfo, tags |-> tags]

\* entry.save() rejects: a required field is missing, the category is not
\* of the enum, or avoided could not be cast.
MistakeSaveFails(entry) ==
  \/ ~Truthy(entry.mistake) \/ ~Truthy(entry.solution) \/ ~Truthy(entry.date)
  \/ entry.category.t # "string" \/ entry.category.v \notin Categories
  \/ CastBoolean(entry.avoided).k = "throw"

(***************************************************************************)
(* The state.                                                              *)
(***************************************************************************)
VARIABLES
  env,          \* process.env.LLM_MAX_RETRIES
  maxRetries,   \* this.maxRetries
  op,           \* the operation in progress: its caller
  pc,           \* where the operation is suspended
  journalText,  \* processJournalEntry's argument
  prompt,       \* the prompt built, or undefined
  attempt,      \* the loop counter of callLLMServiceWithRetry
  lastError,    \* lastError of callLLMServiceWithRetry
  delays,       \* the backoff delays waited, in order
  log,          \* history: per attempt issued, "ok" when the remote service
                \* answered with raw text and "failed" otherwise
  called,       \* what callLLMServiceWithRetry returned or threw
  outcome,      \* what processJournalEntry returned or threw
  probe,        \* history: the answer to the health probe
  result,       \* what healthCheck or testIntegration returned or threw
  req,          \* the create-with-analysis request
  res,          \* the HTTP answer to it
  db,           \* the stored journal entries
  today,        \* the day of the server's clock
  mistakes,     \* the stored mistake records
  nextId,       \* the number of mistake records created so far, plus one
  recorded,     \* history: per mistake record, the days of its streak updates
  hreq,         \* the Authorization header of the last request to a guarded route
  hres,         \* the answer to it, with the handler that ran and req.user
  entries,      \* the stored overthinking and journal entries that are read
  flights       \* per request in flight: the handler's position and what it holds

agentVars == <<env, maxRetries, op, pc, journalText, prompt, attempt, lastError, delays, log,
               called, outcome, probe, result, req, res, db>>
routeVars == <<today, mistakes, nextId, recorded, hreq, hres, entries, flights>>
vars == <<agentVars, routeVars>>

\* The requests that can be in flight at once, and a request that is not.
Flights == 1..MaxRequests
Idle == [pc |-> "idle"]
NoFlights == [r \in Flights |-> Idle]

\* The stored entries of the two users that the read handlers look up.
StoredEntries ==
  [overthinking |-> {[id |-> 1, userId |-> "userA"], [id |-> 2, userId |-> "userB"]},
   journal |-> {[id |-> 1, userId |-> "userA"], [id |-> 2, userId |-> "userB"]}]

\* No request to a guarded route was made yet.
RoutesInit ==
  /\ today = 1
  /\ mistakes = {}
  /\ nextId = 1
  /\ recorded = [id \in 1..MaxMistakes |-> <<>>]
  /\ hreq = Undefined
  /\ hres = Undefined
  /\ entries = StoredEntries
  /\ flights = NoFlights

Init ==
  /\ env \in EnvValues
  /\ maxRetries = ConfiguredMaxRetries(env)
  /\ op = "none"
  /\ pc = "idle"
  /\ journalText = Undefined
  /\ prompt = Undefined
  /\ attempt = 0
  /\ lastError = Undefined
  /\ delays = <<>>
  /\ log = <<>>
  /\ called = Pending
  /\ outcome = Pending
  /\ probe = Pending
  /\ result = Pending
  /\ req = Undefined
  /\ res = Undefined
  /\ db = {}
  /\ RoutesInit

(***************************************************************************)
(* The operations.                                                         *)
(***************************************************************************)
\* processJournalEntry up to its first suspension: the input check, the
\* prompt and the entry of the retry loop.
Enter(caller, text) ==
  /\ op' = caller
  /\ journalText' = text
  /\ UNCHANGED <<env, maxRetries, lastError, delays, log>>
  /\ IF InvalidInput(text)
     THEN /\ outcome' = Throw(InvalidInputError)
          /\ pc' = "returned"
          /\ UNCHANGED <<prompt, attempt, called>>
     ELSE /\ prompt' = buildAnalysisPrompt(Trim(text.chars))
          /\ attempt' = 1
          /\ outcome' = Pending
          /\ IF LoopContinues(1, maxRetries)
             THEN pc' = "call" /\ UNCHANGED called
             ELSE pc' = "called" /\ called' = Throw(NoAttemptError)

\* A caller outside this module invokes processJournalEntry.
processJournalEntry ==
  /\ pc = "idle"
  /\ \E text \in JournalTexts : Enter("process", text)
  /\ UNCHANGED <<probe, result, req, res, db>>
  /\ UNCHANGED routeVars

\* One attempt of callLLMServiceWithRetry settles: the remote service has
\* answered, or the request failed.
Attempt ==
  /\ pc = "call"
  /\ \E answer \in RemoteAnswers :
       /\ log' = Append(log, IF answer.k = "resolve" /\ HasRawText(answer.data)
                             THEN "ok" ELSE "failed")
       /\ IF ~AttemptFailed(answer)
          THEN /\ called' = Return(LlmResponse(answer.data))
               /\ pc' = "called"
               /\ UNCHANGED <<attempt, lastError>>
          ELSE /\ lastError' = AttemptError(answer)
               /\ IF NoRetry(lastError')
                  THEN /\ called' = Throw(Unavailable(maxRetries, lastError'))
                       /\ pc' = "called"
                       /\ UNCHANGED attempt
                  ELSE IF RetryFollows(attempt, maxRetries)
                  THEN /\ pc' = "delay"
                       /\ UNCHANGED <<attempt, called>>
                  ELSE /\ attempt' = attempt + 1
                       /\ IF LoopContinues(attempt', maxRetries)
                          THEN pc' = "call" /\ UNCHANGED called
                          ELSE /\ pc' = "called"
                               /\ called' = Throw(Unavailable(maxRetries, lastError'))
  /\ UNCHANGED <<env, maxRetries, op, journalText, prompt, delays, outcome, probe, result,
                 req, res, db>>
  /\ UNCHANGED routeVars

\* The backoff delay elapses and the loop goes on to the next attempt.
Delay ==
  /\ pc = "delay"
  /\ delays' = Append(delays, BackoffMs(attempt))
  /\ attempt' = attempt + 1
  /\ IF LoopContinues(attempt', maxRetries)
     THEN pc' = "call" /\ UNCHANGED called
     ELSE pc' = "called" /\ called' = Throw(Unavailable(maxRetries, lastError))
  /\ UNCHANGED <<env, maxRetries, op, journalText, prompt, lastError, log, outcome, probe,
                 result, req, res, db>>
  /\ UNCHANGED routeVars

\* processJournalEntry goes on once callLLMServiceWithRetry has settled: it
\* parses and validates the response, and returns or throws.
Parse ==
  /\ pc = "called"
  /\ outcome' = processJournalEntryAfterCall(journalText, called)
  /\ pc' = "returned"
  /\ UNCHANGED <<env, maxRetries, op, journalText, prompt, attempt, lastError, delays,
                 log, called, probe, result, req, res, db>>
  /\ UNCHANGED routeVars

\* processJournalEntry settles for the outside caller.
Settle ==
  /\ pc = "returned" /\ op = "process"
  /\ pc' = "done"
  /\ UNCHANGED <<env, maxRetries, op, journalText, prompt, attempt, lastError, delays,
                 log, called, outcome, probe, result, req, res, db>>
  /\ UNCHANGED routeVars

HealthCheck ==
  /\ pc = "idle"
  /\ \E answer \in ProbeAnswers : probe' = answer /\ result' = healthCheck(answer)
  /\ op' = "health"
  /\ pc' = "done"
  /\ UNCHANGED <<env, maxRetries, journalText, prompt, attempt, lastError, delays, log,
                 called, outcome, req, res, db>>
  /\ UNCHANGED routeVars

testIntegration ==
  /\ pc = "idle"
  /\ Enter("test", SampleJournal)
  /\ UNCHANGED <<probe, result, req, res, db>>
  /\ UNCHANGED routeVars

testIntegrationReturn ==
  /\ pc = "returned" /\ op = "test"
  /\ result' = testIntegrationSettled(outcome)
  /\ pc' = "done"
  /\ UNCHANGED <<env, maxRetries, op, journalText, prompt, attempt, lastError, delays,
                 log, called, outcome, probe, req, res, db>>
  /\ UNCHANGED routeVars

\* createWithAnalysis from the request's arrival to its first suspension.
createWithAnalysis ==
  /\ pc = "idle"
  /\ \E request \in Requests :
       /\ req' = request
       /\ IF Rejected(request) # Null
          THEN /\ res' = Rejected(request)
               /\ op' = "create" /\ pc' = "done"
               /\ UNCHANGED <<env, maxRetries, journalText, prompt, attempt, lastError,
                              delays, log, called, outcome, db>>
          ELSE IF AnalyzeWithAI(request)
          THEN /\ Enter("create", Text(Trim(request.content.chars)))
               /\ UNCHANGED <<res, db>>
          ELSE LET entry == NewJournal(request.uid, Text(Trim(request.content.chars)),
                                       request.date, <<>>, "neutral", Null)
               IN /\ op' = "create" /\ pc' = "done"
                  /\ IF SaveFails(entry)
                     THEN /\ res' = Failed(500, "Failed to create journal entry")
                          /\ UNCHANGED db
                     ELSE /\ db' = db \cup {entry}
                          /\ res' = Created(entry, Null, Null)
                  /\ UNCHANGED <<env, maxRetries, journalText, prompt, attempt, lastError,
                                 delays, log, called, outcome>>
  /\ UNCHANGED <<probe, result>>
  /\ UNCHANGED routeVars

\* createWithAnalysis once the agent has settled: the entry is built, saved
\* and answered.
createWithAnalysisSave ==
  /\ pc = "returned" /\ op = "create"
  /\ LET aiAnalysis == IF outcome.k = "return" THEN TransformAnalysis(outcome.value) ELSE Null
         processingError == IF outcome.k = "throw" THEN Str(outcome.error.message, 1) ELSE Null
         entry == NewJournal(req.uid, Text(Trim(req.content.chars)), req.date, <<>>,
                             "neutral", aiAnalysis)
     IN IF SaveFails(entry)
        THEN /\ res' = Failed(500, "Failed to create journal entry")
             /\ UNCHANGED db
        ELSE /\ db' = db \cup {entry}
             /\ res' = Created(entry, aiAnalysis, processingError)
  /\ pc' = "done"
  /\ UNCHANGED <<env, maxRetries, op, journalText, prompt, attempt, lastError, delays,
                 log, called, outcome, probe, result, req>>
  /\ UNCHANGED routeVars

(***************************************************************************)
(* The guarded routes.  Each request passes verifyToken and then, when     *)
(* next() was called, its handler; requests are handled one at a time.     *)
(***************************************************************************)
\* The answer of a handler: its status and message, and the owners of the
\* records it returned and of those it created, modified or deleted.
Handled(handler, user, status, message, records, changed) ==
  [handler |-> handler, user |-> user, status |-> status, message |-> message,
   returned |-> {e.userId : e \in records}, touched |-> {e.userId : e \in changed}]

\* The request was answered by verifyToken; no handler ran.
Denied(auth) == Handled("none", Undefined, auth.res.status, auth.res.body, {}, {})

\* Model.findOne({ _id: id, userId })
FindOne(collection, id, userId) == {e \in collection : e.id = id /\ e.userId = userId}

\* What a value assigned to entry.avoided is stored as.
AssignAvoided(v) == IF CastBoolean(v).k = "return" THEN CastBoolean(v).value ELSE v

\* The update handler's streak block runs: avoided !== undefined and truthy.
PutRecords(body) == body.avoided.t # "undefined" /\ Truthy(body.avoided)

\* The entry as the update handler has modified it when it saves.
UpdateEntry(entry, body, day) ==
  LET fields == [entry EXCEPT !.mistake = IF Truthy(body.mistake) THEN body.mistake ELSE @,
                              !.solution = IF Truthy(body.solution) THEN body.solution ELSE @,
                              !.category = IF Truthy(body.category) THEN body.category ELSE @]
      streak == IF body.avoided.t = "undefined" THEN fields
                ELSE [fields EXCEPT !.avoided = AssignAvoided(body.avoided),
                                    !.streakInfo = IF Truthy(body.avoided)
                                                   THEN PutStreak(@, DateStr(day))
                                                   ELSE @]
  IN [streak EXCEPT !.tags = IF Truthy(body.tags) THEN body.tags ELSE @]

\* ToggleEntry that runs the streak block whatever the new flag is.
ToggleEntryStreakOnUnmark(entry, day) ==
  LET avoided == ~Truthy(entry.avoided)
  IN [entry EXCEPT !.avoided = Bool(avoided),
                   !.streakInfo = ToggleStreak(@, DateStr(day))]

\* The entry as the toggle handler has modified it when it saves.
ToggleEntry(entry, day) ==
  LET avoided == ~Truthy(entry.avoided)
  IN [entry EXCEPT !.avoided = Bool(avoided),
                   !.streakInfo = IF avoided THEN ToggleStreak(@, DateStr(day)) ELSE @]

\* The history of a saved streak update.
Recording(entry) == recorded' = [recorded EXCEPT ![entry.id] = Append(@, today)]

CreateBodies ==
  [mistake : {Undefined, Str("mistake", 7)}, solution : {Str("solution", 8)},
   category : {Undefined, Str("Other", 5)}, date : {Undefined, Str("2024-01-15", 10)},
   tags : {Undefined}]
ValidCreateBodies ==
  {body \in CreateBodies : Truthy(body.mistake) /\ Truthy(body.date) /\ Truthy(body.category)}
UpdateBodies ==
  [mistake : {Undefined}, solution : {Undefined},
   category : {Undefined, Str("health", 6)},
   avoided : {Undefined, Bool(TRUE), Bool(FALSE), Str("false", 5), Str("maybe", 5)},
   tags : {Undefined}]
AvoidedBodies == {body \in UpdateBodies : ~Truthy(body.category)}
GuardedBodies == {body \in UpdateBodies : body.avoided \in {Undefined, Bool(TRUE)}}
OwnerHeaders == {Header(<<"Bearer", "tokenA">>)}
Owner == {"userA"}

\* The server's clock passes midnight (UTC).
Tick ==
  /\ today < MaxDay
  /\ today' = today + 1
  /\ UNCHANGED <<mistakes, nextId, recorded, hreq, hres, entries, flights>>
  /\ UNCHANGED agentVars

\* GET /api/mistakes/:userId
MistakeList(Hs, Us) ==
  /\ \E authorization \in Hs, userId \in Us, category \in {Undefined, Str("Other", 5)} :
       LET auth == verifyToken(authorization)
           found == {e \in mistakes :
                       e.userId = userId /\ (Truthy(category) => e.category = category)}
       IN /\ hreq' = authorization
          /\ hres' = IF auth.next
                     THEN Handled("mistakes.list", auth.user, 200, "", found, {})
                     ELSE Denied(auth)
  /\ UNCHANGED <<today, mistakes, nextId, recorded, entries, flights>>
  /\ UNCHANGED agentVars

\* GET /api/mistakes/:userId/:id
MistakeGet(Hs, Us) ==
  /\ \E authorization \in Hs, userId \in Us, id \in 1..MaxMistakes :
       LET auth == verifyToken(authorization)
           found == FindOne(mistakes, id, userId)
       IN /\ hreq' = authorization
          /\ hres' = IF ~auth.next THEN Denied(auth)
                     ELSE IF found = {}
                     THEN Handled("mistakes.get", auth.user, 404, "Mistake entry not found",
                                  {}, {})
                     ELSE Handled("mistakes.get", auth.user, 200, "", found, {})
  /\ UNCHANGED <<today, mistakes, nextId, recorded, entries, flights>>
  /\ UNCHANGED agentVars

\* POST /api/mistakes/:userId
MistakeCreate(Hs, Us, Bodies) ==
  /\ nextId <= MaxMistakes
  /\ \E authorization \in Hs, userId \in Us, body \in Bodies :
       LET auth == verifyToken(authorization)
           entry == NewMistake(nextId, userId, body.mistake, body.solution,
                               OrElse(body.category, Str("other", 5)), body.date,
                               OrElse(body.tags, Arr(<<>>)))
       IN /\ hreq' = authorization
          /\ IF ~auth.next
             THEN hres' = Denied(auth) /\ UNCHANGED <<mistakes, nextId>>
             ELSE IF ~Truthy(body.mistake) \/ ~Truthy(body.solution) \/ ~Truthy(body.date)
             THEN /\ hres' = Handled("mistakes.create", auth.user, 400,
                                     "Mistake, solution, and date are required", {}, {})
                  /\ UNCHANGED <<mistakes, nextId>>
             ELSE IF MistakeSaveFails(entry)
             THEN /\ hres' = Handled("mistakes.create", auth.user, 500, "Validation failed",
                                     {}, {})
                  /\ UNCHANGED <<mistakes, nextId>>
             ELSE /\ mistakes' = mistakes \cup {entry}
                  /\ nextId' = nextId + 1
                  /\ hres' = Handled("mistakes.create", auth.user, 201, "", {entry}, {entry})
  /\ UNCHANGED <<today, recorded, entries, flights>>
  /\ UNCHANGED agentVars

\* PUT /api/mistakes/:userId/:id
MistakeUpdate(Hs, Us, Bodies) ==
  /\ \E authorization \in Hs, userId \in Us, id \in 1..MaxMistakes, body \in Bodies :
       LET auth == verifyToken(authorization)
           found == FindOne(mistakes, id, userId)
           entry == CHOOSE e \in found : TRUE
           updated == UpdateEntry(entry, body, today)
       IN /\ hreq' = authorization
          /\ IF ~auth.next
             THEN hres' = Denied(auth) /\ UNCHANGED <<mistakes, recorded>>
             ELSE IF found = {}
             THEN /\ hres' = Handled("mistakes.update", auth.user, 404,
                                     "Mistake entry not found", {}, {})
                  /\ UNCHANGED <<mistakes, recorded>>
             ELSE IF MistakeSaveFails(updated)
             THEN /\ hres' = Handled("mistakes.update", auth.user, 500, "Validation failed",
                                     {}, {})
                  /\ UNCHANGED <<mistakes, recorded>>
             ELSE /\ PutRecords(body) => Len(recorded[id]) < MaxRecordings
                  /\ mistakes' = (mistakes \ {entry}) \cup {updated}
                  /\ hres' = Handled("mistakes.update", auth.user, 200, "", {updated}, {entry})
                  /\ IF PutRecords(body) THEN Recording(entry)
                     ELSE UNCHANGED recorded
  /\ UNCHANGED <<today, nextId, entries, flights>>
  /\ UNCHANGED agentVars

\* DELETE /api/mistakes/:userId/:id
MistakeDelete(Hs, Us) ==
  /\ \E authorization \in Hs, userId \in Us, id \in 1..MaxMistakes :
       LET auth == verifyToken(authorization)
           found == FindOne(mistakes, id, userId)
       IN /\ hreq' = authorization
          /\ IF ~auth.next
             THEN hres' = Denied(auth) /\ UNCHANGED mistakes
             ELSE IF found = {}
             THEN /\ hres' = Handled("mistakes.delete", auth.user, 404,
                                     "Mistake entry not found", {}, {})
                  /\ UNCHANGED mistakes
             ELSE /\ mistakes' = mistakes \ found
                  /\ hres' = Handled("mistakes.delete", auth.user, 200,
                                     "Mistake entry deleted successfully", {}, found)
  /\ UNCHANGED <<today, nextId, recorded, entries, flights>>
  /\ UNCHANGED agentVars

\* PATCH /api/mistakes/:userId/:id/toggle-avoided
MistakeToggle(Hs, Us) ==
  /\ \E authorization \in Hs, userId \in Us, id \in 1..MaxMistakes :
       LET auth == verifyToken(authorization)
           found == FindOne(mistakes, id, userId)
           entry == CHOOSE e \in found : TRUE
           updated == ToggleEntry(entry, today)
       IN /\ hreq' = authorization
          /\ IF ~auth.next
             THEN hres' = Denied(auth) /\ UNCHANGED <<mistakes, recorded>>
             ELSE IF found = {}
             THEN /\ hres' = Handled("mistakes.toggle", auth.user, 404,
                                     "Mistake entry not found", {}, {})
                  /\ UNCHANGED <<mistakes, recorded>>
             ELSE IF MistakeSaveFails(updated)
             THEN /\ hres' = Handled("mistakes.toggle", auth.user, 500, "Validation failed",
                                     {}, {})
                  /\ UNCHANGED <<mistakes, recorded>>
             ELSE /\ updated.avoided.b => Len(recorded[id]) < MaxRecordings
                  /\ mistakes' = (mistakes \ {entry}) \cup {updated}
                  /\ hres' = Handled("mistakes.toggle", auth.user, 200, "", {updated}, {entry})
                  /\ IF updated.avoided.b THEN Recording(entry)
                     ELSE UNCHANGED recorded
  /\ UNCHANGED <<today, nextId, entries, flights>>
  /\ UNCHANGED agentVars

\* GET /api/overthinking/:userId/:id
OverthinkingGet(Hs, Us) ==
  /\ \E authorization \in Hs, userId \in Us, id \in 1..2 :
       LET auth == verifyToken(authorization)
           found == FindOne(entries.overthinking, id, userId)
       IN /\ hreq' = authorization
          /\ hres' = IF ~auth.next THEN Denied(auth)
                     ELSE IF found = {}
                     THEN Handled("overthinking.get", auth.user, 404,
                                  "Overthinking entry not found", {}, {})
                     ELSE Handled("overthinking.get", auth.user, 200, "", found, {})
  /\ UNCHANGED <<today, mistakes, nextId, recorded, entries, flights>>
  /\ UNCHANGED agentVars

\* req.user?.uid is set.
HasUid(user) == user.t = "object" /\ "uid" \in DOMAIN user

\* GET /api/journal/:id
JournalGet(Hs) ==
  /\ \E authorization \in Hs, id \in 1..2 :
       LET auth == verifyToken(authorization)
           found == FindOne(entries.journal, id, auth.user.uid)
       IN /\ hreq' = authorization
          /\ hres' = IF ~auth.next THEN Denied(auth)
                     ELSE IF ~HasUid(auth.user)
                     THEN Handled("journal.get", auth.user, 401, "Unauthorized", {}, {})
                     ELSE IF found = {}
                     THEN Handled("journal.get", auth.user, 404, "Journal entry not found",
                                  {}, {})
                     ELSE Handled("journal.get", auth.user, 200, "", found, {})
  /\ UNCHANGED <<today, mistakes, nextId, recorded, entries, flights>>
  /\ UNCHANGED agentVars

(***************************************************************************)
(* Dispatch.  A router tries its routes in the order of their declaration; *)
(* the first one whose method and path pattern match handles the request,  *)
(* and a handler that answers ends it.                                     *)
(***************************************************************************)
Route(method, pattern, handler) == [method |-> method, pattern |-> pattern, handler |-> handler]

\* The routes of src/routes/mistakes.js, in the order of the file.
MistakeRoutes ==
  <<Route("GET", <<":userId">>, "mistakes.list"),
    Route("GET", <<":userId", ":id">>, "mistakes.get"),
    Route("POST", <<":userId">>, "mistakes.create"),
    Route("PUT", <<":userId", ":id">>, "mistakes.update"),
    Route("DELETE", <<":userId", ":id">>, "mistakes.delete"),
    Route("PATCH", <<":userId", ":id", "toggle-avoided">>, "mistakes.toggle"),
    Route("GET", <<":userId", "stats">>, "mistakes.stats")>>

\* The routes of the journal router, in the order of the file.
JournalRoutes ==
  <<Route("GET", <<>>, "journal.list"),
    Route("GET", <<":id">>, "journal.get"),
    Route("POST", <<>>, "journal.create"),
    Route("PUT", <<":id">>, "journal.update"),
    Route("DELETE", <<":id">>, "journal.delete"),
    Route("GET", <<"stats">>, "journal.stats")>>

\* A pattern segment that binds a route parameter.
IsParam(segment) == segment \in {":userId", ":id"}

Matches(pattern, path) ==
  /\ Len(pattern) = Len(path)
  /\ \A i \in 1..Len(pattern) : IsParam(pattern[i]) \/ pattern[i] = path[i]

\* The handler of the first matching route, "none" when no route matches.
Dispatch(routes, method, path) ==
  LET hits == {i \in 1..Len(routes) :
                 routes[i].method = method /\ Matches(routes[i].pattern, path)}
  IN IF hits = {} THEN "none"
     ELSE routes[CHOOSE i \in hits : \A j \in hits : i <= j].handler

\* The path segments that name a stored document: the _id each stands for.
ObjectIds == ("1" :> 1) @@ ("2" :> 2)
IdSegments == DOMAIN ObjectIds \cup {"stats"}

\* Casting a query's _id to ObjectId raises CastError for any other string.
CastFails(segment) == segment \notin DOMAIN ObjectIds

\* (avoidedEntries / totalEntries * 100).toFixed(1), in tenths of a percent.
AvoidanceRate(avoidedEntries, totalEntries) ==
  IF totalEntries > 0 THEN (avoidedEntries * 2000 + totalEntries) \div (2 * totalEntries) ELSE 0

Max(S) == IF S = {} THEN 0 ELSE CHOOSE n \in S : \A m \in S : m <= n

\* The statistics record of the mistake records of userId.
MistakeStats(userId) ==
  LET own == {e \in mistakes : e.userId = userId}
      avoided == {e \in own : e.avoided = Bool(TRUE)}
  IN [totalEntries |-> Cardinality(own),
      avoidedEntries |-> Cardinality(avoided),
      avoidanceRate |-> AvoidanceRate(Cardinality(avoided), Cardinality(own)),
      categoryDistribution |->
        [c \in {e.category : e \in own} |-> Cardinality({e \in own : e.category = c})],
      bestStreak |-> Max({e.streakInfo.bestStreak : e \in own})]

\* The statistics record of the journal entries of userId; the entries of
\* the model carry neither date nor mood, which the other two counts group.
JournalStats(userId) ==
  [totalEntries |-> Cardinality({e \in entries.journal : e.userId = userId})]

\* The answer of a statistics handler.
Statistics(handler, user, stats) ==
  [stats |-> stats] @@ Handled(handler, user, 200, "", {}, {})

\* The paths of the GET requests below /api/mistakes and /api/journal.
MistakePaths == {<<userId>> : userId \in Users} \cup (Users \X IdSegments)
JournalPaths == {<<>>} \cup {<<id>> : id \in IdSegments}

\* A GET request to the mistake router, answered by the handler it is
\* dispatched to.
MistakeServe(Hs) ==
  /\ \E authorization \in Hs, path \in MistakePaths, category \in {Undefined, Str("Other", 5)} :
       LET auth == verifyToken(authorization)
           handler == Dispatch(MistakeRoutes, "GET", path)
           userId == path[1]
           list == {e \in mistakes :
                      e.userId = userId /\ (Truthy(category) => e.category = category)}
           found == FindOne(mistakes, ObjectIds[path[2]], userId)
       IN /\ hreq' = authorization
          /\ hres' = [path |-> path] @@
                    (IF ~auth.next THEN Denied(auth)
                     ELSE IF handler = "mistakes.list"
                     THEN Handled(handler, auth.user, 200, "", list, {})
                     ELSE IF handler = "mistakes.stats"
                     THEN Statistics(handler, auth.user, MistakeStats(userId))
                     ELSE IF CastFails(path[2])
                     THEN Handled(handler, auth.user, 500, "Cast to ObjectId failed", {}, {})
                     ELSE IF found = {}
                     THEN Handled(handler, auth.user, 404, "Mistake entry not found", {}, {})
                     ELSE Handled(handler, auth.user, 200, "", found, {}))
  /\ UNCHANGED <<today, mistakes, nextId, recorded, entries, flights>>
  /\ UNCHANGED agentVars

\* A GET request to the journal router.
JournalServe(Hs) ==
  /\ \E authorization \in Hs, path \in JournalPaths :
       LET auth == verifyToken(authorization)
           handler == Dispatch(JournalRoutes, "GET", path)
           userId == auth.user.uid
           list == {e \in entries.journal : e.userId = userId}
           found == FindOne(entries.journal, ObjectIds[path[1]], userId)
       IN /\ hreq' = authorization
          /\ hres' = [path |-> path] @@
                    (IF ~auth.next THEN Denied(auth)
                     ELSE IF ~HasUid(auth.user)
                     THEN Handled(handler, auth.user, 401, "Unauthorized", {}, {})
                     ELSE IF handler = "journal.list"
                     THEN Handled(handler, auth.user, 200, "", list, {})
                     ELSE IF handler = "journal.stats"
                     THEN Statistics(handler, auth.user, JournalStats(userId))
                     ELSE IF CastFails(path[1])
                     THEN Handled(handler, auth.user, 500, "Cast to ObjectId failed", {}, {})
                     ELSE IF found = {}
                     THEN Handled(handler, auth.user, 404, "Journal entry not found", {}, {})
                     ELSE Handled(handler, auth.user, 200, "", found, {}))
  /\ UNCHANGED <<today, mistakes, nextId, recorded, entries, flights>>
  /\ UNCHANGED agentVars

(***************************************************************************)
(* Handlers that run concurrently.  A handler is suspended at each await:  *)
(* between its findOne and its save any other request may run.  save()     *)
(* stores the document the handler holds in place of the stored one.       *)
(***************************************************************************)
\* The stored document with the id of the one held.
StoredAs(collection, doc) == {e \in collection : e.id = doc.id}

\* Save that leaves a stored document as it is.
SaveKeepsStored(collection, doc) ==
  IF StoredAs(collection, doc) # {} THEN collection ELSE collection \cup {doc}

\* Save that writes the held currentStreak alone into the stored document.
SaveCurrentStreakOnly(collection, doc) ==
  {IF e.id = doc.id
   THEN [e EXCEPT !.streakInfo.currentStreak = doc.streakInfo.currentStreak]
   ELSE e : e \in collection}

\* entry.save(): the held document replaces the stored one.
Save(collection, doc) == (collection \ StoredAs(collection, doc)) \cup {doc}

\* A journal entry as stored, with its _id.
JournalDoc(id, userId, content, aiAnalysis) ==
  [id |-> id] @@ NewJournal(userId, content, Str("2024-01-15", 10), <<>>, "neutral",
                            aiAnalysis)

\* The answer of a journal handler.
JournalAnswer(handler, status, message, analysis) ==
  [handler |-> handler, status |-> status, message |-> message, analysis |-> analysis]

\* What callLLMServiceWithRetry settles with for the content of a stored entry.
AnalyzeAnswers ==
  {Return(LlmResponse(Data(Raw(<<Json(o)>>), Undefined))) :
     o \in {ValidAnalysis, [ValidAnalysis EXCEPT !.overall_score = Num(0)],
            [ValidAnalysis EXCEPT !.overall_score = Num(11)]}}
    \cup {Throw(Err("Error", "LLM service unavailable after 3 attempts"))}

\* const { forceReanalysis = false } = req.body
ForceReanalysis(body) ==
  IF body.forceReanalysis = Undefined THEN FALSE ELSE Truthy(body.forceReanalysis)

AnalyzeBodies == [forceReanalysis : {Undefined, Bool(FALSE), Bool(TRUE)}]
\* The bodies of the update: tags and mood are assigned as content is.
JournalBodies == [content : {Undefined, Text(<<"b">>), Text(<<"c">>)}]

\* POST /api/journal/:id/analyze up to the await of processJournalEntry.
\* The request carries a verified token, so req.user.uid is set and the 401
\* answer does not arise.
analyzeExisting(r) ==
  /\ flights[r] = Idle
  /\ \E userId \in Users, body \in AnalyzeBodies :
       LET found == FindOne(db, 1, Str(userId, 5))
           entry == CHOOSE e \in found : TRUE
       IN IF found = {}
          THEN /\ hres' = JournalAnswer("analyzeExisting", 404, "Journal entry not found", Null)
               /\ UNCHANGED flights
          ELSE IF entry.aiAnalysis # Null /\ ~ForceReanalysis(body)
          THEN /\ hres' = JournalAnswer("analyzeExisting", 200, "Entry already analyzed",
                                        entry.aiAnalysis)
               /\ UNCHANGED flights
          ELSE /\ flights' = [flights EXCEPT ![r] = [pc |-> "analyzing", entry |-> entry,
                                                    body |-> body]]
               /\ UNCHANGED hres
  /\ UNCHANGED <<today, mistakes, nextId, recorded, hreq, entries>>
  /\ UNCHANGED agentVars

\* analyzeExisting once processJournalEntry has settled: the analysis is
\* assigned, the entry saved and the request answered.
analyzeExistingSave(r) ==
  /\ flights[r].pc = "analyzing"
  /\ \E settled \in AnalyzeAnswers :
       LET entry == flights[r].entry
           analysisResult == processJournalEntryAfterCall(entry.content, settled)
           updated == [entry EXCEPT !.aiAnalysis = TransformAnalysis(analysisResult.value)]
       IN IF analysisResult.k = "throw" \/ SaveFails(updated)
          THEN /\ hres' = JournalAnswer("analyzeExisting", 500,
                                        "Failed to analyze journal entry", Null)
               /\ UNCHANGED db
          ELSE /\ db' = Save(db, updated)
               /\ hres' = JournalAnswer("analyzeExisting", 200, "", updated.aiAnalysis)
  /\ flights' = [flights EXCEPT ![r] = Idle]
  /\ UNCHANGED <<today, mistakes, nextId, recorded, hreq, entries>>
  /\ UNCHANGED <<env, maxRetries, op, pc, journalText, prompt, attempt, lastError, delays,
                 log, called, outcome, probe, result, req, res>>

\* PUT /api/journal/:id up to the await of save.
JournalUpdate(r) ==
  /\ flights[r] = Idle
  /\ \E userId \in Users, body \in JournalBodies :
       LET found == FindOne(db, 1, Str(userId, 5))
           entry == CHOOSE e \in found : TRUE
       IN IF found = {}
          THEN /\ hres' = JournalAnswer("journal.update", 404, "Journal entry not found", Null)
               /\ UNCHANGED flights
          ELSE /\ flights' =
                    [flights EXCEPT ![r] =
                       [pc |-> "saving",
                        entry |-> [entry EXCEPT
                                     !.content = IF Truthy(body.content) THEN body.content
                                                 ELSE @]]]
               /\ UNCHANGED hres
  /\ UNCHANGED <<today, mistakes, nextId, recorded, hreq, entries>>
  /\ UNCHANGED agentVars

\* The save of the update handler and its answer.
JournalUpdateSave(r) ==
  /\ flights[r].pc = "saving"
  /\ LET updated == flights[r].entry
     IN IF SaveFails(updated)
        THEN /\ hres' = JournalAnswer("journal.update", 500, "Validation failed", Null)
             /\ UNCHANGED db
        ELSE /\ db' = Save(db, updated)
             /\ hres' = JournalAnswer("journal.update", 200, "", updated.aiAnalysis)
  /\ flights' = [flights EXCEPT ![r] = Idle]
  /\ UNCHANGED <<today, mistakes, nextId, recorded, hreq, entries>>
  /\ UNCHANGED <<env, maxRetries, op, pc, journalText, prompt, attempt, lastError, delays,
                 log, called, outcome, probe, result, req, res>>

\* What a handler of the mistake router holds between findOne and save: the
\* entry as it read it and as it has modified it.
Holding(handler, user, read, entry) ==
  [pc |-> "saving", handler |-> handler, user |-> user, read |-> read, entry |-> entry]

ConcurrentBodies == {body \in AvoidedBodies : body.avoided = Bool(TRUE)}

\* PATCH /api/mistakes/:userId/:id/toggle-avoided up to the await of save.
MistakeToggleRead(r, Hs, Us) ==
  /\ flights[r] = Idle
  /\ \E authorization \in Hs, userId \in Us, id \in 1..MaxMistakes :
       LET auth == verifyToken(authorization)
           found == FindOne(mistakes, id, userId)
           entry == CHOOSE e \in found : TRUE
       IN /\ hreq' = authorization
          /\ IF ~auth.next
             THEN hres' = Denied(auth) /\ UNCHANGED flights
             ELSE IF found = {}
             THEN /\ hres' = Handled("mistakes.toggle", auth.user, 404,
                                     "Mistake entry not found", {}, {})
                  /\ UNCHANGED flights
             ELSE /\ flights' = [flights EXCEPT ![r] =
                                   Holding("mistakes.toggle", auth.user, entry,
                                           ToggleEntry(entry, today))]
                  /\ UNCHANGED hres
  /\ UNCHANGED <<today, mistakes, nextId, recorded, entries>>
  /\ UNCHANGED agentVars

\* PUT /api/mistakes/:userId/:id up to the await of save.
MistakeUpdateRead(r, Hs, Us, Bodies) ==
  /\ flights[r] = Idle
  /\ \E authorization \in Hs, userId \in Us, id \in 1..MaxMistakes, body \in Bodies :
       LET auth == verifyToken(authorization)
           found == FindOne(mistakes, id, userId)
           entry == CHOOSE e \in found : TRUE
       IN /\ hreq' = authorization
          /\ IF ~auth.next
             THEN hres' = Denied(auth) /\ UNCHANGED flights
             ELSE IF found = {}
             THEN /\ hres' = Handled("mistakes.update", auth.user, 404,
                                     "Mistake entry not found", {}, {})
                  /\ UNCHANGED flights
             ELSE /\ flights' = [flights EXCEPT ![r] =
                                   Holding("mistakes.update", auth.user, entry,
                                           UpdateEntry(entry, body, today))]
                  /\ UNCHANGED hres
  /\ UNCHANGED <<today, mistakes, nextId, recorded, entries>>
  /\ UNCHANGED agentVars

\* await entry.save() of either handler and its answer.
MistakeSave(r) ==
  /\ flights[r].pc = "saving"
  /\ IF MistakeSaveFails(flights[r].entry)
     THEN /\ hres' = Handled(flights[r].handler, flights[r].user, 500, "Validation failed",
                             {}, {})
          /\ UNCHANGED mistakes
     ELSE /\ mistakes' = Save(mistakes, flights[r].entry)
          /\ hres' = Handled(flights[r].handler, flights[r].user, 200, "",
                             {flights[r].entry}, {flights[r].read})
  /\ flights' = [flights EXCEPT ![r] = Idle]
  /\ UNCHANGED <<today, nextId, recorded, hreq, entries>>
  /\ UNCHANGED agentVars

Next ==
  \/ processJournalEntry
  \/ Attempt
  \/ Delay
  \/ Parse
  \/ Settle
  \/ HealthCheck
  \/ testIntegration
  \/ testIntegrationReturn
  \/ createWithAnalysis
  \/ createWithAnalysisSave

Spec == Init /\ [][Next]_vars

\* The event loop runs what is ready: a request issued with a timeout
\* settles, and a timer set expires.
FairSpec == Spec /\ WF_vars(Attempt) /\ WF_vars(Delay)

(***************************************************************************)
(* The parser and validator alone: processJournalEntry at the point where  *)
(* the first attempt of the retrying call has answered with raw text, for  *)
(* every raw text.                                                         *)
(***************************************************************************)
InitParse ==
  /\ env = Undefined
  /\ maxRetries = ConfiguredMaxRetries(env)
  /\ op = "process"
  /\ pc = "called"
  /\ journalText \in {Text(<<"a">>), Text(<<" ", "a", " ">>)}
  /\ prompt = buildAnalysisPrompt(Trim(journalText.chars))
  /\ attempt = 1
  /\ lastError = Undefined
  /\ delays = <<>>
  /\ log = <<"ok">>
  /\ called \in {Return(LlmResponse(Data(raw, Undefined))) : raw \in AllRawTexts \cup {Num(5)}}
  /\ outcome = Pending
  /\ probe = Pending
  /\ result = Pending
  /\ req = Undefined
  /\ res = Undefined
  /\ db = {}
  /\ RoutesInit

NextParse == Parse \/ Settle

SpecParse == InitParse /\ [][NextParse]_vars

(***************************************************************************)
(* The agent is not in use while the routes are exercised.                 *)
(***************************************************************************)
AgentRest ==
  /\ env = Undefined
  /\ maxRetries = ConfiguredMaxRetries(env)
  /\ op = "none"
  /\ pc = "idle"
  /\ journalText = Undefined
  /\ prompt = Undefined
  /\ attempt = 0
  /\ lastError = Undefined
  /\ delays = <<>>
  /\ log = <<>>
  /\ called = Pending
  /\ outcome = Pending
  /\ probe = Pending
  /\ result = Pending
  /\ req = Undefined
  /\ res = Undefined

AgentIdle == AgentRest /\ db = {}

InitRoutes == AgentIdle /\ RoutesInit

\* The owner has created a mistake record, as MistakeCreate stores it.
InitStreak ==
  /\ AgentIdle
  /\ today = 1
  /\ \E body \in ValidCreateBodies :
       mistakes = {NewMistake(1, "userA", body.mistake, body.solution, body.category,
                              body.date, Arr(<<>>))}
  /\ nextId = 2
  /\ recorded = [id \in 1..MaxMistakes |-> <<>>]
  /\ hreq = Undefined
  /\ hres = Undefined
  /\ entries = StoredEntries
  /\ flights = NoFlights

\* The owner of the record updates it and toggles it as the days pass.
NextStreak ==
  \/ Tick
  \/ MistakeUpdate(OwnerHeaders, Owner, AvoidedBodies)
  \/ MistakeToggle(OwnerHeaders, Owner)

SpecStreak == InitStreak /\ [][NextStreak]_vars

\* Requests of any sender, with any Authorization header, to the guarded
\* routes.
NextRoutes ==
  \/ MistakeList(HeaderValues, Users)
  \/ MistakeGet(HeaderValues, Users)
  \/ MistakeCreate(HeaderValues, Users, CreateBodies)
  \/ MistakeUpdate(HeaderValues, Users, GuardedBodies)
  \/ MistakeDelete(HeaderValues, Users)
  \/ MistakeToggle(HeaderValues, Users)
  \/ OverthinkingGet(HeaderValues, Users)
  \/ JournalGet(HeaderValues)

SpecRoutes == InitRoutes /\ [][NextRoutes]_vars

(***************************************************************************)
(* Concurrent requests on one stored journal entry of userA, which has no  *)
(* analysis yet.                                                           *)
(***************************************************************************)
InitAnalyze ==
  /\ AgentRest
  /\ db = {JournalDoc(1, Str("userA", 5), Text(<<"a">>), Null)}
  /\ RoutesInit

NextAnalyze ==
  \E r \in Flights :
    \/ analyzeExisting(r)
    \/ analyzeExistingSave(r)
    \/ JournalUpdate(r)
    \/ JournalUpdateSave(r)

SpecAnalyze == InitAnalyze /\ [][NextAnalyze]_vars

(***************************************************************************)
(* The owner's GET requests as the routers dispatch them, and the owner's  *)
(* updates and toggles of the record, its own and under another user's     *)
(* path, as the days pass.                                                 *)
(***************************************************************************)
NextDispatch ==
  \/ Tick
  \/ MistakeUpdate(OwnerHeaders, Users, AvoidedBodies)
  \/ MistakeToggle(OwnerHeaders, Users)
  \/ MistakeServe(OwnerHeaders)
  \/ JournalServe(OwnerHeaders)

SpecDispatch == InitStreak /\ [][NextDispatch]_vars

(***************************************************************************)
(* The owner's updates and toggles of one mistake record that overlap, as  *)
(* the days pass.                                                          *)
(***************************************************************************)
\* The owner has created the record two days before the clock's last day.
InitConcurrent ==
  /\ AgentIdle
  /\ today = MaxDay - 2
  /\ \E body \in ValidCreateBodies :
       mistakes = {NewMistake(1, "userA", body.mistake, body.solution, body.category,
                              body.date, Arr(<<>>))}
  /\ nextId = 2
  /\ recorded = [id \in 1..MaxMistakes |-> <<>>]
  /\ hreq = Undefined
  /\ hres = Undefined
  /\ entries = StoredEntries
  /\ flights = NoFlights

NextConcurrent ==
  \/ Tick
  \/ \E r \in Flights :
       \/ MistakeToggleRead(r, OwnerHeaders, Owner)
       \/ MistakeUpdateRead(r, OwnerHeaders, Owner, ConcurrentBodies)
       \/ MistakeSave(r)

SpecConcurrent == InitConcurrent /\ [][NextConcurrent]_vars

(***************************************************************************)
(* The claims.                                                             *)
(***************************************************************************)
Last(seq) == seq[Len(seq)]
StatusOf(error) == IF "status" \in DOMAIN error THEN error.status ELSE 0
Settled == {"called", "returned", "done"}
AllFailed == \A i \in 1..Len(log) : log[i] = "failed"

RECURSIVE Sum(_)
Sum(seq) == IF Len(seq) = 0 THEN 0 ELSE Head(seq) + Sum(Tail(seq))

\* The shape constraints an analysis is to satisfy, stated on the value.
NonEmpty(v) == v.t \notin {"undefined", "null"} /\ (v.t = "string" => StrLen(v) > 0)
ShapeOK(a) ==
  /\ a.t = "object"
  /\ {"summary", "sentiment", "sentiment_reasoning", "wrongdoings_and_solutions",
      "overall_score"} \subseteq DOMAIN a
  /\ a.summary.t = "array" /\ Len(a.summary.elems) \in 1..5
  /\ a.sentiment \in {Str("Positive", 8), Str("Negative", 8), Str("Neutral", 7)}
  /\ a.sentiment_reasoning.t = "string" /\ StrLen(a.sentiment_reasoning) > 0
  /\ a.wrongdoings_and_solutions.t = "array"
  /\ \A i \in 1..Len(a.wrongdoings_and_solutions.elems) :
       LET item == a.wrongdoings_and_solutions.elems[i]
       IN /\ item.t = "object"
          /\ {"wrongdoing", "solution"} \subseteq DOMAIN item
          /\ NonEmpty(item.wrongdoing) /\ NonEmpty(item.solution)
  /\ a.overall_score.t = "number"
  /\ a.overall_score.n >= 0 /\ a.overall_score.n <= 10

\* A text that is no string, is empty or holds only whitespace.
Blank(text) ==
  text.t # "string" \/ \A i \in 1..Len(text.chars) : text.chars[i] = " "

\* C1: once processJournalEntry has settled on a non-empty string input, it
\* has either thrown an error or returned an envelope whose analysis
\* satisfies every shape constraint.
C1_ValidatedOrFails ==
  (op = "process" /\ pc \in {"returned", "done"} /\ ~Blank(journalText)) =>
    \/ outcome.k = "throw"
    \/ outcome.k = "return" /\ ShapeOK(outcome.value.analysis)

\* A raw text wrapped in noise was parsed and its analysis returned.
C1_Witness ==
  /\ pc = "done"
  /\ outcome.k = "return"
  /\ Len(called.value.response.tokens) > 1

\* C2: a call issues at most n + 1 remote call attempts for the configured
\* LLM_MAX_RETRIES = n >= 0 (so exactly one for n = 0), and at most 3 when
\* nothing is configured.
C2_AtMostConfiguredPlusOne ==
  /\ env = Undefined => Len(log) <= 2 + 1
  /\ \A n \in 0..MaxConfigRetries : env = Numeral(n) => Len(log) <= n + 1

\* C3: with maxRetries = 2 no more than 3 attempts are issued; two failures
\* followed by a success end the call with that response after 3 attempts;
\* three retryable failures end it with the unavailable error that carries
\* the last failure's message.
C3_RetryScenario ==
  maxRetries = 2 =>
    /\ Len(log) <= 3
    /\ log = <<"failed", "failed", "ok">> =>
         /\ pc \in Settled
         /\ called.k = "return"
         /\ Truthy(called.value.response)
    /\ (pc \in Settled /\ called.k = "throw" /\ log # <<>> /\ AllFailed
          /\ StatusOf(lastError) \notin {400, 401}) =>
         /\ Len(log) = 3
         /\ called.error.message
              = "LLM service unavailable after 3 attempts: " \o lastError.message

\* The call ended after two failures and a success on the third attempt.
C3_Witness ==
  /\ maxRetries = 2
  /\ log = <<"failed", "failed", "ok">>
  /\ pc = "done"

\* C4 as claimed: after an attempt rejected with any 4xx status no further
\* attempt is made and no backoff delay is waited.
C4_Any4xxNotRetried ==
  (log # <<>> /\ Last(log) = "failed" /\ StatusOf(lastError) \in 400..499) =>
    /\ pc \in Settled
    /\ Len(delays) = Len(log) - 1

\* C4 as amended: after an attempt rejected with status 400 or 401 no
\* further attempt is made and no backoff delay is waited.
C4_ClientFaultNotRetried ==
  (log # <<>> /\ Last(log) = "failed" /\ StatusOf(lastError) \in {400, 401}) =>
    /\ pc \in Settled
    /\ called.k = "throw"
    /\ Len(delays) = Len(log) - 1

\* The first attempt was rejected with 401 and the call ended there.
C4_Witness ==
  /\ maxRetries = 2
  /\ log = <<"failed">>
  /\ StatusOf(lastError) = 401
  /\ pc = "done"

\* C5: after a failed attempt that is no 400 or 401 rejection, with fewer
\* than maxRetries + 1 attempts made, the call is waiting its backoff delay
\* or about to issue the next attempt, and the next attempt is issued.
RetryDue(k) ==
  /\ Len(log) = k /\ Last(log) = "failed"
  /\ StatusOf(lastError) \notin {400, 401}
  /\ k < maxRetries + 1
C5_RetryableIsRetried ==
  \A k \in 1..(MaxConfigRetries + DefaultMaxRetries) :
    /\ [](RetryDue(k) => pc \in {"delay", "call"})
    /\ RetryDue(k) ~> (Len(log) = k + 1)

\* A response without raw text on the first attempt: the second is next.
C5_Witness ==
  /\ log = <<"failed">>
  /\ lastError = InvalidFormatError
  /\ pc = "call"
  /\ attempt = 2

\* C6 as claimed: a call whose response was rejected by the parser or the
\* validator has failed only after maxRetries + 1 attempts.
C6_ParseFailureRetried ==
  (pc \in {"returned", "done"} /\ called.k = "return" /\ outcome.k = "throw") =>
    Len(log) = maxRetries + 1

\* C6 as amended: an answer with raw text ends the retrying call, and when
\* the parser or the validator rejects it processJournalEntry throws that
\* error, wrapped, without another attempt.
C6_ParseFailureIsFinal ==
  (log # <<>> /\ Last(log) = "ok") =>
    /\ pc \in Settled
    /\ called.k = "return"
    /\ (pc # "called" /\ parseAndValidateLLMResponse(called.value).k = "throw") =>
         outcome = Throw(Wrapped(parseAndValidateLLMResponse(called.value).error))

\* The first answer was rejected by the parser with two retries left.
C6_Witness ==
  /\ maxRetries = 2
  /\ log = <<"ok">>
  /\ pc = "done"
  /\ outcome.k = "throw"

\* C7: the k-th delay waited is k x 1000 ms; one delay follows each failed
\* attempt but the last; three failures with maxRetries = 2 wait 3000 ms.
C7_LinearBackoff ==
  /\ \A k \in 1..Len(delays) : delays[k] = 1000 * k
  /\ Len(delays) = IF pc = "call" \/ log = <<>> THEN Len(log) ELSE Len(log) - 1
  /\ (maxRetries = 2 /\ log = <<"failed", "failed", "failed">> /\ pc \in Settled) =>
       Sum(delays) = 1000 + 2000

\* Three failed attempts with both delays waited.
C7_Witness ==
  /\ maxRetries = 2
  /\ log = <<"failed", "failed", "failed">>
  /\ delays = <<1000, 2000>>
  /\ pc = "done"

\* C8: processJournalEntry on a text that is no string, empty or only
\* whitespace throws the invalid-input error with no prompt built and no
\* attempt issued.
C8_InvalidInputFailsFast ==
  (op = "process" /\ Blank(journalText)) =>
    /\ pc \in {"returned", "done"}
    /\ outcome = Throw(Err("Error", "Journal text must be a non-empty string"))
    /\ prompt = Undefined
    /\ log = <<>> /\ delays = <<>> /\ called = Pending

\* A whitespace-only text was refused.
C8_Witness ==
  /\ op = "process"
  /\ journalText = Text(<<" ", " ">>)
  /\ pc = "done"

\* C9: once a create-with-analysis request of a signed-in user with
\* non-blank string content and a date is answered, an entry with that
\* content is stored.
C9_ContentAlwaysPersisted ==
  (op = "create" /\ pc = "done" /\ Truthy(req.uid) /\ Truthy(req.date)
     /\ ~Blank(req.content)) =>
    \E entry \in db : entry.userId = req.uid /\ entry.content = Text(Trim(req.content.chars))

\* C10: healthCheck returns, unhealthy with the probe's error exactly when
\* the probe failed; testIntegration returns, with success false and the
\* error message exactly when processJournalEntry threw.
C10_NeverRaise ==
  /\ (op = "health" /\ pc = "done") =>
       /\ result.k = "return"
       /\ result.value.status = IF probe.k = "reject" THEN "unhealthy" ELSE "healthy"
       /\ probe.k = "reject" => result.value.llmService.error = probe.error.message
  /\ (op = "test" /\ pc = "done") =>
       /\ result.k = "return"
       /\ result.value.success = (outcome.k = "return")
       /\ outcome.k = "throw" => result.value.error = outcome.error.message

\* The probe was rejected with an error status and healthCheck returned.
C10_Witness ==
  /\ op = "health"
  /\ pc = "done"
  /\ probe.k = "reject" /\ StatusOf(probe.error) = 503

\* The parser has acted on a raw text that is exactly one JSON object.
SingleObject ==
  /\ pc \in {"returned", "done"}
  /\ called.k = "return"
  /\ "tokens" \in DOMAIN called.value.response
  /\ Len(called.value.response.tokens) = 1
  /\ called.value.response.tokens[1].k = "json"
ParsedObject == called.value.response.tokens[1].o

\* C11: an object whose other two fields are valid is accepted exactly when
\* its summary is a list of 1 to 5 elements, its sentiment is exactly
\* Positive, Negative or Neutral and its overall_score is a number from 0 to
\* 10; an accepted object is returned as the analysis.
C11_Boundaries ==
  (/\ SingleObject
   /\ ParsedObject.sentiment_reasoning.t = "string"
   /\ StrLen(ParsedObject.sentiment_reasoning) > 0
   /\ ParsedObject.wrongdoings_and_solutions = Arr(<<>>)) =>
    /\ outcome.k = "return" <=>
         /\ ParsedObject.summary.t = "array"
         /\ Len(ParsedObject.summary.elems) \in 1..5
         /\ ParsedObject.sentiment \in {Str("Positive", 8), Str("Negative", 8), Str("Neutral", 7)}
         /\ ParsedObject.overall_score.t = "number"
         /\ ParsedObject.overall_score.n \in 0..10
    /\ outcome.k = "return" => outcome.value.analysis = ParsedObject

\* An object with a summary of 5 points and a score of 10 was accepted.
C11_Witness ==
  /\ SingleObject
  /\ outcome.k = "return"
  /\ ParsedObject.summary = Summary(5)
  /\ ParsedObject.overall_score = Num(10)

\* The constraint of each field, stated on the value.
SummaryBad(o) == ~(o.summary.t = "array" /\ Len(o.summary.elems) \in 1..5)
SentimentBad(o) ==
  o.sentiment \notin {Str("Positive", 8), Str("Negative", 8), Str("Neutral", 7)}
ReasoningBad(o) ==
  ~(o.sentiment_reasoning.t = "string" /\ StrLen(o.sentiment_reasoning) > 0)
ItemBad(item) ==
  ~(/\ item.t = "object"
    /\ {"wrongdoing", "solution"} \subseteq DOMAIN item
    /\ NonEmpty(item.wrongdoing) /\ NonEmpty(item.solution))
WrongdoingsBad(o) ==
  ~(/\ o.wrongdoings_and_solutions.t = "array"
    /\ \A i \in 1..Len(o.wrongdoings_and_solutions.elems) :
         ~ItemBad(o.wrongdoings_and_solutions.elems[i]))
ScoreBad(o) == ~(o.overall_score.t = "number" /\ o.overall_score.n \in 0..10)
AnyBad(o) ==
  SummaryBad(o) \/ SentimentBad(o) \/ ReasoningBad(o) \/ WrongdoingsBad(o) \/ ScoreBad(o)

\* C12: an object is accepted exactly when no field violates its
\* constraint; otherwise processJournalEntry fails with the one
\* "Invalid LLM response structure" error, whose list holds the violations
\* of all five fields in order, with at least one for every violated field.
C12_AllViolationsListed ==
  SingleObject =>
    LET o == ParsedObject
        listed == SummaryErrors(o) \o SentimentErrors(o) \o ReasoningErrors(o)
                    \o WrongdoingsErrors(o) \o ScoreErrors(o)
    IN /\ outcome.k = "return" <=> ~AnyBad(o)
       /\ AnyBad(o) =>
            /\ outcome = Throw(Wrapped(Err("Error", "Invalid LLM response structure: "
                                                       \o Join(listed))))
            /\ SummaryBad(o) => SummaryErrors(o) # <<>>
            /\ SentimentBad(o) => SentimentErrors(o) # <<>>
            /\ ReasoningBad(o) => ReasoningErrors(o) # <<>>
            /\ WrongdoingsBad(o) => WrongdoingsErrors(o) # <<>>
            /\ ScoreBad(o) => ScoreErrors(o) # <<>>

\* The raw text is a JSON object between a prefix and a trailing text that
\* hold no JSON value.
NoiseTokens == {Ws, Noise, LBrace, RBrace, LBracket, RBracket}
Wrapping(i) ==
  /\ pc \in {"returned", "done"}
  /\ called.k = "return"
  /\ "tokens" \in DOMAIN called.value.response
  /\ i \in 1..Len(called.value.response.tokens)
  /\ called.value.response.tokens[i].k = "json"
  /\ \A j \in 1..Len(called.value.response.tokens) :
       j # i => called.value.response.tokens[j] \in NoiseTokens

\* C13: a valid analysis object wrapped in any prefix and trailing noise is
\* extracted, validated and returned as the analysis.
C13_NoiseTolerated ==
  \A i \in 1..6 :
    (Wrapping(i) /\ ~AnyBad(called.value.response.tokens[i].o)) =>
      /\ outcome.k = "return"
      /\ outcome.value.analysis = called.value.response.tokens[i].o

\* The stored mistake record of an id, and its streak.
Stored(id) == \E e \in mistakes : e.id = id
StreakOf(store, id) == (CHOOSE e \in store : e.id = id).streakInfo

\* A streak update of the record was saved in this step.
Recorded(id) == recorded'[id] # recorded[id]

\* recordAvoidance of the description, on day numbers.
RecordAvoidance(streakInfo, day) ==
  LET current == IF streakInfo.lastAvoidedDate = NoDate THEN 1
                 ELSE IF day - streakInfo.lastAvoidedDate.day = 1
                 THEN streakInfo.currentStreak + 1
                 ELSE 1
  IN [currentStreak |-> current,
      bestStreak |-> IF current > streakInfo.bestStreak THEN current ELSE streakInfo.bestStreak,
      lastAvoidedDate |-> DateStr(day)]

\* C14: every saved streak update leaves the streak recordAvoidance gives
\* for the previous streak and today; avoiding on day 1, day 2 and day 5
\* from {0, 0, unset} gives {1, 1, day 1}, {2, 2, day 2}, {1, 2, day 5}.
C14_RecordAvoidance ==
  /\ [](\A id \in 1..MaxMistakes :
          /\ recorded[id] = <<1>> /\ Stored(id) =>
               StreakOf(mistakes, id) = [currentStreak |-> 1, bestStreak |-> 1,
                                         lastAvoidedDate |-> DateStr(1)]
          /\ recorded[id] = <<1, 2>> /\ Stored(id) =>
               StreakOf(mistakes, id) = [currentStreak |-> 2, bestStreak |-> 2,
                                         lastAvoidedDate |-> DateStr(2)]
          /\ recorded[id] = <<1, 2, 5>> /\ Stored(id) =>
               StreakOf(mistakes, id) = [currentStreak |-> 1, bestStreak |-> 2,
                                         lastAvoidedDate |-> DateStr(5)])
  /\ [][\A id \in 1..MaxMistakes :
          Recorded(id) =>
            StreakOf(mistakes', id) = RecordAvoidance(StreakOf(mistakes, id), today)]_vars

\* The record was avoided on day 1, day 2 and day 5.
C14_Witness == recorded[1] = <<1, 2, 5>> /\ Stored(1)

\* C15: every stored mistake record has bestStreak >= currentStreak >= 0.
C15_BestAtLeastCurrent ==
  \A e \in mistakes :
    /\ e.streakInfo.bestStreak >= e.streakInfo.currentStreak
    /\ e.streakInfo.currentStreak >= 0
    /\ e.streakInfo.bestStreak >= 0

\* A streak of 2 was broken: the current streak is back at 1, the best is 2.
C15_Witness ==
  \E e \in mistakes : e.streakInfo.currentStreak = 1 /\ e.streakInfo.bestStreak = 2

\* C16: no operation lowers the bestStreak of a record.
C16_BestNeverDecreases ==
  [][\A id \in 1..MaxMistakes :
       (Stored(id) /\ \E e \in mistakes' : e.id = id) =>
         StreakOf(mistakes', id).bestStreak >= StreakOf(mistakes, id).bestStreak]_vars

\* After day 1 and day 2 a day was skipped: the best streak is still 2.
C16_Witness == recorded[1] = <<1, 2, 4>> /\ StreakOf(mistakes, 1).bestStreak = 2

\* C17: the streak update of the update handler and that of the toggle
\* handler give the same streak for every stored streak and today, and every
\* saved streak update, at either site, leaves the streak both of them give.
C17_SameAtBothSites ==
  /\ [](\A e \in mistakes :
          PutStreak(e.streakInfo, DateStr(today)) = ToggleStreak(e.streakInfo, DateStr(today)))
  /\ [][\A id \in 1..MaxMistakes :
          Recorded(id) =>
            /\ StreakOf(mistakes', id) = PutStreak(StreakOf(mistakes, id), DateStr(today))
            /\ StreakOf(mistakes', id) = ToggleStreak(StreakOf(mistakes, id), DateStr(today))]_vars

\* A toggle saved the second streak update of a record, one day after the
\* first.
C17_Witness ==
  /\ hres # Undefined /\ hres.handler = "mistakes.toggle" /\ hres.status = 200
  /\ Len(recorded[1]) = 2
  /\ StreakOf(mistakes, 1).currentStreak = 2
  /\ StreakOf(mistakes, 1).lastAvoidedDate = DateStr(today)

\* The consecutive calendar days, ending at the last one, on each of which
\* a streak update was recorded.
RECURSIVE ConsecutiveDays(_, _)
ConsecutiveDays(days, last) ==
  IF last \notin days THEN 0 ELSE 1 + ConsecutiveDays(days, last - 1)
DaysOf(seq) == {seq[i] : i \in 1..Len(seq)}

\* The latest streak updates each of which was recorded exactly one day
\* after the one before it.
RECURSIVE Chain(_)
Chain(seq) ==
  IF Len(seq) <= 1 THEN Len(seq)
  ELSE IF seq[Len(seq)] - seq[Len(seq) - 1] = 1
  THEN 1 + Chain(SubSeq(seq, 1, Len(seq) - 1))
  ELSE 1

\* C20 as claimed: currentStreak is the number of consecutive calendar days,
\* ending at lastAvoidedDate, on each of which an avoidance was recorded.
C20_ConsecutiveCalendarDays ==
  \A e \in mistakes :
    recorded[e.id] # <<>> =>
      /\ e.streakInfo.lastAvoidedDate = DateStr(Last(recorded[e.id]))
      /\ e.streakInfo.currentStreak
           = ConsecutiveDays(DaysOf(recorded[e.id]), e.streakInfo.lastAvoidedDate.day)

\* C20 as amended: currentStreak is the number of the latest recorded
\* avoidances each of which came exactly one day after the one before it, so
\* marking again on the same day or after a skipped day starts again at 1.
C20_ChainOfUpdates ==
  \A e \in mistakes :
    /\ recorded[e.id] = <<>> => e.streakInfo = NewStreakInfo
    /\ recorded[e.id] # <<>> =>
         /\ e.streakInfo.lastAvoidedDate = DateStr(Last(recorded[e.id]))
         /\ e.streakInfo.currentStreak = Chain(recorded[e.id])

\* The avoidance of day 2 was marked twice: the streak of 2 is back at 1.
C20_Witness == recorded[1] = <<1, 2, 2>> /\ StreakOf(mistakes, 1).currentStreak = 1

\* C18: a handler that ran for a request with a verified token returned,
\* created, modified or deleted records of the token's user only.
C18_NoCrossUserAccess ==
  (hres # Undefined /\ hres.handler # "none") =>
    hres.returned \cup hres.touched \subseteq {hres.user.uid}

\* The tokens the identity provider issued, and the user of each.
IssuedTo(token) == IF token = "tokenA" THEN "userA" ELSE "userB"
CarriesIssuedToken(authorization) ==
  /\ authorization # Undefined
  /\ Len(authorization.parts) >= 2
  /\ authorization.parts[2] \in {"tokenA", "tokenB"}

\* C19: a request without a token the identity provider verifies is
\* answered 401 by the token check, no handler runs and nothing stored
\* changes; a handler runs only with the user decoded from the verified
\* token attached.
C19_GuardedByToken ==
  /\ [](hres # Undefined =>
          /\ ~CarriesIssuedToken(hreq) => hres.status = 401 /\ hres.handler = "none"
          /\ hres.handler # "none" =>
               /\ CarriesIssuedToken(hreq)
               /\ hres.user = [t |-> "object", uid |-> IssuedTo(hreq.parts[2])])
  /\ [][(hres' # Undefined /\ hres'.handler = "none") =>
          UNCHANGED <<mistakes, nextId, recorded, entries>>]_vars

\* A request with an expired token was turned away while a record was
\* stored.
C19_Witness ==
  /\ hreq = Header(<<"Bearer", "expired">>)
  /\ hres.status = 401 /\ hres.handler = "none" /\ hres.message = "Invalid token"
  /\ mistakes # {}

\* The save of an analyze request that carried forceReanalysis = true.
ForcedSave ==
  \E r \in Flights :
    /\ flights[r].pc = "analyzing" /\ flights'[r] = Idle
    /\ ForceReanalysis(flights[r].body)

\* C21: once an analysis is attached to a journal entry, only the save of an
\* analyze request with forceReanalysis = true changes it, whatever requests
\* run and however they interleave; and an analyze request without
\* forceReanalysis that finds an analysis answers with the stored analysis
\* and starts no call of the remote service.
C21_ImmutableOnceAttached ==
  [][/\ \A e \in db :
          e.aiAnalysis # Null =>
            \/ \E f \in db' : f.id = e.id /\ f.aiAnalysis = e.aiAnalysis
            \/ ForcedSave
     /\ (hres' # hres /\ hres'.message = "Entry already analyzed") =>
          /\ flights' = flights /\ db' = db
          /\ \E e \in db : hres'.analysis = e.aiAnalysis]_vars

\* The last request asked for the statistics of a router.
StatsRequested ==
  /\ hres # Undefined /\ "path" \in DOMAIN hres
  /\ hres.handler # "none"
  /\ Len(hres.path) > 0 /\ hres.path[Len(hres.path)] = "stats"

\* C22: a GET request for /:userId/stats of the mistake router, or /stats of
\* the journal router, is handled by the statistics handler and answered
\* with the statistics record; it is not handled as a get-by-id request with
\* id = "stats".
C22_StatsServed ==
  StatsRequested =>
    /\ hres.handler \in {"mistakes.stats", "journal.stats"}
    /\ hres.status = 200 /\ "stats" \in DOMAIN hres

\* A create-mistake request that passed the check of the required fields
\* was answered in this step.
CreateAnswered ==
  /\ hres' # Undefined /\ hres'.handler = "mistakes.create" /\ hres'.status # 400
  /\ hres' # hres \/ mistakes' # mistakes

\* C23: a create-mistake request that supplies mistake, solution and date is
\* answered 201 and stores a new entry with avoided = false, streakInfo
\* {0, 0, unset} and a category of the schema's set, the default category
\* when the request names none.
C23_CreateSucceeds ==
  [][CreateAnswered =>
       /\ hres'.status = 201
       /\ \E e \in mistakes' \ mistakes :
            /\ e.avoided = Bool(FALSE) /\ e.streakInfo = NewStreakInfo
            /\ e.category.v \in Categories]_vars

\* The violation pushed for the element at an index.
ItemViolation(index) ==
  "wrongdoings_and_solutions[" \o ToString(index)
    \o "] must have both wrongdoing and solution fields"

\* C24: for every element of wrongdoings_and_solutions that lacks a
\* non-empty wrongdoing or a non-empty solution, an element that is null or
\* no object included, validation lists the violation that names the
\* element's index, and processJournalEntry fails with the
\* "Invalid LLM response structure" error and no other.
C24_BadItemReported ==
  SingleObject =>
    LET o == ParsedObject
        list == o.wrongdoings_and_solutions
        validation == validateAnalysisResponse(o)
    IN list.t = "array" =>
         \A i \in 1..Len(list.elems) :
           ItemBad(list.elems[i]) =>
             /\ validation.k = "return"
             /\ \E n \in 1..Len(validation.value.errors) :
                  validation.value.errors[n] = ItemViolation(i - 1)
             /\ outcome = Throw(Wrapped(Err("Error", "Invalid LLM response structure: "
                                                        \o Join(validation.value.errors))))

\* The parser has run on a raw text.
ParsedRaw ==
  /\ pc \in {"returned", "done"}
  /\ called.k = "return"
  /\ "tokens" \in DOMAIN called.value.response

\* C25: brace extraction is a fallback: when the trimmed raw text is JSON as
\* it stands, the value it parses to is what is validated, so the text is
\* accepted exactly when that value is valid and that value is the analysis
\* returned; an array around a valid object is rejected.
C25_ExtractionIsFallback ==
  ParsedRaw =>
    LET whole == JsonParse(TrimTokens(called.value.response.tokens))
        validation == validateAnalysisResponse(whole.value)
    IN whole.k = "return" =>
         /\ outcome.k = "return" <=> (validation.k = "return" /\ validation.value.isValid)
         /\ outcome.k = "return" => outcome.value.analysis = whole.value

\* No stored mistake record has its streakInfo changed by the step.
StreaksUnchanged ==
  \A e \in mistakes : \A f \in mistakes' : f.id = e.id => f.streakInfo = e.streakInfo

\* C26: the streakInfo of a mistake record changes only in a step that
\* records an avoidance: an update with avoided = false or without avoided,
\* a toggle of a record whose avoided flag is true, every read and
\* statistics request and every request answered 404 leave currentStreak,
\* bestStreak and lastAvoidedDate as they were.
C26_StreakFrame ==
  [][/\ ~StreaksUnchanged => \E id \in 1..MaxMistakes : recorded'[id] # recorded[id]
     /\ \A body \in AvoidedBodies :
          (body.avoided \in {Undefined, Bool(FALSE)}
             /\ MistakeUpdate(OwnerHeaders, Users, {body})) => StreaksUnchanged
     /\ (MistakeToggle(OwnerHeaders, Users) /\ \A e \in mistakes : e.avoided = Bool(TRUE)) =>
          StreaksUnchanged
     /\ (MistakeServe(OwnerHeaders) \/ JournalServe(OwnerHeaders)) => StreaksUnchanged
     /\ (hres' # Undefined /\ hres'.status = 404) => StreaksUnchanged]_vars

\* A record that was un-marked keeps the streak of its two avoidances.
C26_Witness ==
  /\ hres # Undefined /\ hres.handler = "mistakes.toggle" /\ hres.status = 200
  /\ \E e \in mistakes :
       /\ e.avoided = Bool(FALSE)
       /\ e.streakInfo.currentStreak = 2 /\ e.streakInfo.lastAvoidedDate # NoDate

\* Request r, a toggle, saves in this step.
ToggleSaves(r) ==
  /\ flights[r].pc = "saving" /\ flights[r].handler = "mistakes.toggle"
  /\ flights'[r] = Idle

\* What is stored is a single toggle of the entry as request r read it,
\* written while r was in flight.
ToggledSince(r) ==
  /\ mistakes # {flights[r].read}
  /\ \E day \in 1..today : mistakes = {ToggleEntry(flights[r].read, day)}

\* C27: concurrent toggle-avoided requests on one record are
\* last-write-wins.  The save of a toggle stores the single toggle of the
\* entry as that request read it, whatever was saved since; so when two
\* toggles have read the same stored state and the first has saved, after the
\* save of the second the avoided flag and streakInfo are those of a single
\* toggle of that state, not those of the second toggle applied to what the
\* first one stored.
C27_LastWriteWins ==
  [][\A r \in Flights :
       ToggleSaves(r) =>
         /\ mistakes' = {flights[r].entry}
         /\ \E day \in 1..today : flights[r].entry = ToggleEntry(flights[r].read, day)
         /\ ToggledSince(r) =>
              \A e \in mistakes, f \in mistakes' :
                /\ f.avoided # flights[r].read.avoided
                /\ f.avoided # ToggleEntry(e, today).avoided
                /\ <<f.avoided, f.streakInfo>>
                     # <<ToggleEntry(e, today).avoided, ToggleEntry(e, today).streakInfo>>]_vars

\* Two toggles read the same stored state; the first has saved and been
\* answered, the second is about to save.
C27_Witness ==
  /\ hres # Undefined /\ hres.handler = "mistakes.toggle" /\ hres.status = 200
  /\ \E r \in Flights :
       /\ flights[r].pc = "saving" /\ flights[r].handler = "mistakes.toggle"
       /\ ToggledSince(r)
       /\ flights[r].read.streakInfo.currentStreak = 1

\* C28: however updates with avoided = true and toggles of one mistake
\* record interleave, each save storing the whole held record, every stored
\* state of the record has bestStreak >= currentStreak, and
\* currentStreak >= 1 once lastAvoidedDate is set.
C28_StoredStreakSound ==
  \A e \in mistakes :
    /\ e.streakInfo.bestStreak >= e.streakInfo.currentStreak
    /\ e.streakInfo.lastAvoidedDate # NoDate => e.streakInfo.currentStreak >= 1

\* A stale save has replaced a longer streak: the record holds a current
\* and best streak of one day while an update that read a best streak of two
\* is still in flight.
C28_Witness ==
  /\ \E e \in mistakes :
       /\ e.streakInfo.currentStreak = 1 /\ e.streakInfo.bestStreak = 1
       /\ e.streakInfo.lastAvoidedDate # NoDate
       /\ \E r \in Flights :
            /\ flights[r].pc = "saving"
            /\ flights[r].read.streakInfo.bestStreak = 2
            /\ flights[r].handler = "mistakes.update"

====
